---- MODULE Spec2Model ----
(***************************************************************************)
(* Model of the productivity tracker in streamlit_app.py: the Firestore    *)
(* entry store (FirestoreManager), the entry submission handler, the       *)
(* metrics engine and the insight rules (ProductivityTracker).             *)
(*                                                                         *)
(* Conventions.  Hours are counted in tenths of an hour (the entry form    *)
(* steps by 0.1), so 8.8h is 88.  Ratios the code computes in floating     *)
(* point are exact rationals <<n, d>> here, d > 0, in lowest terms, so     *)
(* results agree with the code up to floating-point rounding.              *)
(* Strings that the code compares or concatenates character by character   *)
(* (ISO dates, user ids, document ids) are sequences of character codes.   *)
(* The server timestamp field updated_at is not modelled.                  *)
(***************************************************************************)
EXTENDS Integers, Sequences, FiniteSets, TLC

VARIABLES store, pending, hist, writes, today, result, advice
VARIABLES accounts, users, productivity, session

vars == <<store, pending, hist, writes, today, result, advice,
          accounts, users, productivity, session>>

(***************************************************************************)
(* Bounds                                                                  *)
(***************************************************************************)
MaxWrites == 3        \* saves issued in one behaviour of Spec
MaxEntries == 2       \* entries stored in one behaviour of SpecMetrics
WeekBack == 7         \* SpecWeek: entry dates reach back this many days

(***************************************************************************)
(* Generic helpers                                                         *)
(***************************************************************************)
Max(a, b) == IF a >= b THEN a ELSE b

Min(a, b) == IF a <= b THEN a ELSE b

RECURSIVE GCD(_, _)
GCD(a, b) == IF b = 0 THEN a ELSE GCD(b, a % b)

\* the rational n/d (n >= 0, d > 0) in lowest terms; a pair with d = 0 is
\* no rational: it stands for the quotient of a division by zero
Rat(n, d) == LET g == Max(GCD(n, d), 1) IN <<n \div g, d \div g>>

RatLT(p, q) == p[1] * q[2] < q[1] * p[2]

RatLE(p, q) == p[1] * q[2] <= q[1] * p[2]

RatAdd(p, q) == Rat(p[1] * q[2] + q[1] * p[2], p[2] * q[2])

RatHalf(p) == Rat(p[1], 2 * p[2])

RatMin(p, q) == IF RatLE(p, q) THEN p ELSE q

\* sum(d.values()) of a dict d with numeric values
RECURSIVE SumValues(_)
SumValues(f) ==
    IF DOMAIN f = {} THEN 0
    ELSE LET k == CHOOSE x \in DOMAIN f : TRUE
         IN f[k] + SumValues([x \in DOMAIN f \ {k} |-> f[x]])

\* the sequences that list every element of the finite set S exactly once
Orderings(S) ==
    {f \in [1..Cardinality(S) -> S] : \A i, j \in 1..Cardinality(S) : f[i] = f[j] => i = j}

\* the elements of seq that are in S, in the order of seq
Restrict(seq, S) == SelectSeq(seq, LAMBDA x : x \in S)

(***************************************************************************)
(* Strings as sequences of character codes                                 *)
(***************************************************************************)
Hyphen == 45
Underscore == 95
Digit(n) == 48 + n

\* Python's str comparison: by code point at the first position where the
\* strings differ, a proper prefix being smaller
StrLE(s, t) ==
    LET n == Min(Len(s), Len(t))
        diff == {i \in 1..n : s[i] # t[i]}
    IN IF diff = {} THEN Len(s) <= Len(t)
       ELSE LET i == CHOOSE x \in diff : \A y \in diff : x <= y
            IN s[i] < t[i]

(***************************************************************************)
(* datetime.date: <<year, month, day>>, with the proleptic Gregorian       *)
(* ordinal used by date - timedelta and date - date                        *)
(***************************************************************************)
IsLeap(y) == (y % 4 = 0) /\ ((y % 100 # 0) \/ (y % 400 = 0))

DaysInMonth(y, m) ==
    IF m = 2 THEN (IF IsLeap(y) THEN 29 ELSE 28)
    ELSE IF m \in {4, 6, 9, 11} THEN 30 ELSE 31

DaysBeforeYear(y) ==
    (y - 1) * 365 + ((y - 1) \div 4) - ((y - 1) \div 100) + ((y - 1) \div 400)

RECURSIVE DaysBeforeMonth(_, _)
DaysBeforeMonth(y, m) ==
    IF m = 1 THEN 0 ELSE DaysBeforeMonth(y, m - 1) + DaysInMonth(y, m - 1)

ToOrdinal(d) == DaysBeforeYear(d[1]) + DaysBeforeMonth(d[1], d[2]) + d[3]

RECURSIVE MonthOfYearDay(_, _, _)
MonthOfYearDay(y, m, n) ==
    IF n <= DaysInMonth(y, m) THEN <<y, m, n>>
    ELSE MonthOfYearDay(y, m + 1, n - DaysInMonth(y, m))

FromOrdinal(n) ==
    LET n0 == n - 1
        n400 == n0 \div 146097
        r400 == n0 % 146097
        n100 == r400 \div 36524
        r100 == r400 % 36524
        n4 == r100 \div 1461
        r4 == r100 % 1461
        n1 == r4 \div 365
        r1 == r4 % 365
        y == n400 * 400 + n100 * 100 + n4 * 4 + n1 + 1
    IN IF n1 = 4 \/ n100 = 4 THEN <<y - 1, 12, 31>>
       ELSE MonthOfYearDay(y, 1, r1 + 1)

\* d - timedelta(days=k)
MinusDays(d, k) == FromOrdinal(ToOrdinal(d) - k)

\* (a - b).days
DaysBetween(a, b) == ToOrdinal(a) - ToOrdinal(b)

\* d.replace(day=1)
ReplaceDay1(d) == <<d[1], d[2], 1>>

\* d.isoformat(): "YYYY-MM-DD"
IsoFormat(d) ==
    << Digit(d[1] \div 1000), Digit((d[1] \div 100) % 10),
       Digit((d[1] \div 10) % 10), Digit(d[1] % 10), Hyphen,
       Digit(d[2] \div 10), Digit(d[2] % 10), Hyphen,
       Digit(d[3] \div 10), Digit(d[3] % 10) >>

\* pd.to_datetime of a string "YYYY-MM-DD": the date it denotes
ParseIso(str) ==
    << (str[1] - 48) * 1000 + (str[2] - 48) * 100 + (str[3] - 48) * 10 + (str[4] - 48),
       (str[6] - 48) * 10 + (str[7] - 48),
       (str[9] - 48) * 10 + (str[10] - 48) >>

\* d.weekday(): Monday is 0, Sunday is 6 (ordinal 1 is a Monday)
Weekday(d) == (ToOrdinal(d) + 6) % 7

\* pd.date_range(a, b): the days from a to b, both included
DateRange(a, b) ==
    [i \in 1..(ToOrdinal(b) - ToOrdinal(a) + 1) |-> FromOrdinal(ToOrdinal(a) + i - 1)]

\* d.strftime('%d')
StrfDay(d) == <<Digit(d[3] \div 10), Digit(d[3] % 10)>>

(***************************************************************************)
(* The daily_entries collection                                            *)
(***************************************************************************)
None == [none |-> TRUE]

\* faulty variant of DocId: the date cut to its month
DocIdOfMonth(user_id, date_str) == user_id \o <<Underscore>> \o SubSeq(date_str, 1, 7)

\* f"{user_id}_{date_str}"
DocId(user_id, date_str) == user_id \o <<Underscore>> \o date_str

\* entry_data built by ProductivityTracker.save_daily_entry
EntryData(date_str, activity_data, notes, work_location, mood_score, energy_level) ==
    [ date |-> date_str,
      activity_data |-> activity_data,
      total_hours |-> SumValues(activity_data),
      notes |-> notes,
      work_location |-> work_location,
      mood_score |-> mood_score,
      energy_level |-> energy_level ]

\* entry_doc built by FirestoreManager.save_daily_entry
EntryDoc(user_id, entry_data) ==
    [ user_id |-> user_id,
      date |-> entry_data.date,
      activity_data |-> entry_data.activity_data,
      total_hours |-> entry_data.total_hours,
      notes |-> entry_data.notes,
      work_location |-> entry_data.work_location,
      mood_score |-> entry_data.mood_score,
      energy_level |-> entry_data.energy_level ]

\* A map field written with merge=True: every leaf of the written map is a
\* field path of the update mask, so the keys it names are overwritten and
\* the other keys of the stored map are kept; an empty written map is itself
\* a leaf and replaces the stored map.
MergeMap(old, new) ==
    IF DOMAIN new = {} THEN new
    ELSE [k \in DOMAIN old \cup DOMAIN new |->
            IF k \in DOMAIN new THEN new[k] ELSE old[k]]

\* faulty variant of SetMerge: the written document is all the collection
\* keeps
SetMergeAlone(st, doc_id, entry_doc) ==
    [id \in {doc_id} |-> entry_doc]

\* document(doc_id).set(entry_doc, merge=True)
SetMerge(st, doc_id, entry_doc) ==
    LET merged ==
          IF doc_id \in DOMAIN st
          THEN [entry_doc EXCEPT
                  !.activity_data = MergeMap(st[doc_id].activity_data, @)]
          ELSE entry_doc
    IN [id \in DOMAIN st \cup {doc_id} |->
          IF id = doc_id THEN merged ELSE st[id]]

\* the entries a query over daily_entries matches: where user_id == user_id,
\* where date >= start_date if given, where date <= end_date if given
MatchingIds(st, user_id, start_date, end_date) ==
    { id \in DOMAIN st :
        /\ st[id].user_id = user_id
        /\ (start_date # <<>> => StrLE(start_date, st[id].date))
        /\ (end_date # <<>> => StrLE(st[id].date, end_date)) }

\* order_by('date', DESCENDING) / entries.sort(key=date, reverse=True):
\* the ids by descending date (equal dates by descending document id)
Before(st, i, j) ==
    IF st[i].date = st[j].date THEN i # j /\ StrLE(j, i)
    ELSE StrLE(st[j].date, st[i].date)

OrderByDateDesc(st, ids) ==
    [r \in 1..Cardinality(ids) |->
        CHOOSE i \in ids : Cardinality({j \in ids : Before(st, j, i)}) = r - 1]

\* How the store answers a query.  status: "ordered" (order_by and stream
\* succeed), "unordered" (order_by or stream raises inside the inner try and
\* the query is streamed again without ordering) or "error" (the query
\* raises).  arrival: the order in which an unordered query streams the
\* documents.  key_order: the order in which a decoded map field yields its
\* keys (to_dict() fixes none).
Reply(status, arrival, key_order) ==
    [status |-> status, arrival |-> arrival, key_order |-> key_order]

\* doc.to_dict() with entry_data['id'] = doc.id; activity_keys is the
\* iteration order of the activity_data dict
WithId(st, id, key_order) ==
    [ id |-> id,
      user_id |-> st[id].user_id,
      date |-> st[id].date,
      activity_data |-> st[id].activity_data,
      activity_keys |-> Restrict(key_order, DOMAIN st[id].activity_data),
      total_hours |-> st[id].total_hours,
      notes |-> st[id].notes,
      work_location |-> st[id].work_location,
      mood_score |-> st[id].mood_score,
      energy_level |-> st[id].energy_level ]

\* faulty variant of GetUserEntries: a query that raises is answered from
\* the documents all the same
GetUserEntriesDespiteError(st, user_id, start_date, end_date, reply) ==
    LET matching == MatchingIds(st, user_id, start_date, end_date)
        ids == OrderByDateDesc(st, matching)
    IN [i \in 1..Len(ids) |-> WithId(st, ids[i], reply.key_order)]

\* faulty variant of GetUserEntries: the list is never sorted in Python
GetUserEntriesAsStreamed(st, user_id, start_date, end_date, reply) ==
    IF reply.status = "error" THEN <<>>
    ELSE LET matching == MatchingIds(st, user_id, start_date, end_date)
             ids == IF reply.status = "ordered"
                    THEN OrderByDateDesc(st, matching)
                    ELSE Restrict(reply.arrival, matching)
         IN [i \in 1..Len(ids) |-> WithId(st, ids[i], reply.key_order)]

\* FirestoreManager.get_user_entries; an absent bound is the empty string.
\* A query that raises returns [].  The rows come in descending date order
\* when the store ordered them or when, no bound being given, the list is
\* sorted in Python; otherwise in the order the store streamed them.
GetUserEntries(st, user_id, start_date, end_date, reply) ==
    IF reply.status = "error" THEN <<>>
    ELSE LET matching == MatchingIds(st, user_id, start_date, end_date)
             ids == IF reply.status = "ordered"
                    THEN OrderByDateDesc(st, matching)
                    ELSE IF start_date = <<>> /\ end_date = <<>>
                    THEN OrderByDateDesc(st, matching)
                    ELSE Restrict(reply.arrival, matching)
         IN [i \in 1..Len(ids) |-> WithId(st, ids[i], reply.key_order)]

(***************************************************************************)
(* Work profile                                                            *)
(***************************************************************************)
OffshoreDailyHours == 88
OnshoreDailyHours == 80

get_expected_hours(location_type) ==
    IF location_type = "offshore" THEN OffshoreDailyHours ELSE OnshoreDailyHours

OffshoreWeeklyHours == 440
OnshoreWeeklyHours == 400

\* faulty variant of get_expected_weekly_hours: the onshore profile only for
\* the literal 'onshore'
get_expected_weekly_hours_listed(location_type) ==
    IF location_type = "onshore" THEN OnshoreWeeklyHours ELSE OffshoreWeeklyHours

get_expected_weekly_hours(location_type) ==
    IF location_type = "offshore" THEN OffshoreWeeklyHours ELSE OnshoreWeeklyHours

\* user.get('location_type', 'onshore')
LocationTypeOf(user) ==
    IF "location_type" \in DOMAIN user THEN user.location_type ELSE "onshore"

(***************************************************************************)
(* Metrics engine                                                          *)
(***************************************************************************)
WeekDays == 7
QuarterDays == 90
DefaultDays == 30

\* faulty variant of StartDate: 'month' treated as a rolling 30 days
StartDateRolling(period, end_date) ==
    IF period = "week" THEN MinusDays(end_date, WeekDays)
    ELSE IF period = "quarter" THEN MinusDays(end_date, QuarterDays)
    ELSE MinusDays(end_date, DefaultDays)

\* start_date of the window that ends at end_date
StartDate(period, end_date) ==
    IF period = "week" THEN MinusDays(end_date, WeekDays)
    ELSE IF period = "month" THEN ReplaceDay1(end_date)
    ELSE IF period = "quarter" THEN MinusDays(end_date, QuarterDays)
    ELSE MinusDays(end_date, DefaultDays)

RECURSIVE SumField(_, _)
SumField(entries, field) ==
    IF entries = <<>> THEN 0
    ELSE Head(entries)[field] + SumField(Tail(entries), field)

\* len(df[df['total_hours'] > 0])
RECURSIVE WorkingDays(_)
WorkingDays(entries) ==
    IF entries = <<>> THEN 0
    ELSE (IF Head(entries).total_hours > 0 THEN 1 ELSE 0) + WorkingDays(Tail(entries))

\* faulty variant of ActivityBreakdown: the hours assigned, not accumulated
RECURSIVE ActivityBreakdownAssigned(_, _)
ActivityBreakdownAssigned(entries, acc) ==
    IF entries = <<>> THEN acc
    ELSE LET a == Head(entries).activity_data
         IN ActivityBreakdownAssigned(Tail(entries),
              [k \in DOMAIN acc \cup DOMAIN a |->
                 IF k \in DOMAIN a THEN a[k] ELSE acc[k]])

\* activity_breakdown[activity] = activity_breakdown.get(activity, 0) + hours
RECURSIVE ActivityBreakdown(_, _)
ActivityBreakdown(entries, acc) ==
    IF entries = <<>> THEN acc
    ELSE LET a == Head(entries).activity_data
         IN ActivityBreakdown(Tail(entries),
              [k \in DOMAIN acc \cup DOMAIN a |->
                 (IF k \in DOMAIN acc THEN acc[k] ELSE 0)
                 + (IF k \in DOMAIN a THEN a[k] ELSE 0)])

\* the keys of activity_breakdown in insertion order: each activity is
\* inserted when the loops over the rows and over a row's items first meet it
RECURSIVE BreakdownKeys(_, _)
BreakdownKeys(entries, keys) ==
    IF entries = <<>> THEN keys
    ELSE LET seen == {keys[i] : i \in 1..Len(keys)}
         IN BreakdownKeys(Tail(entries),
              keys \o SelectSeq(Head(entries).activity_keys,
                                LAMBDA k : k \notin seen))

\* faulty variant of AtLeastOne: the count itself
AtLeastOneUnguarded(n) == n

\* max(n, 1), the divisor made of a count
AtLeastOne(n) == Max(n, 1)

\* faulty variant of ConsistencyScore: the days counted with both ends
ConsistencyScoreInclusive(working_days, expected_days) ==
    Rat(working_days * 100, Max(expected_days + 1, 1))

\* (working_days / max(expected_days, 1)) * 100
ConsistencyScore(working_days, expected_days) ==
    Rat(working_days * 100, AtLeastOne(expected_days))

\* faulty variant of HoursScore: the cap at 100 left out
HoursScoreUncapped(avg_daily_hours, expected_daily_hours) ==
    Rat(avg_daily_hours[1] * 100, avg_daily_hours[2] * expected_daily_hours)

\* min((avg_daily_hours / expected_daily_hours) * 100, 100)
HoursScore(avg_daily_hours, expected_daily_hours) ==
    RatMin(Rat(avg_daily_hours[1] * 100, avg_daily_hours[2] * expected_daily_hours),
           <<100, 1>>)

Zero == <<0, 1>>

\* the dict returned when the window has no entries (breakdown_keys is the
\* key order of the activity_breakdown dict)
EmptyMetrics(location_type) ==
    [ total_hours |-> 0, avg_daily_hours |-> Zero, working_days |-> 0,
      productivity_score |-> Zero, mood_avg |-> Zero, energy_avg |-> Zero,
      activity_breakdown |-> <<>>, breakdown_keys |-> <<>>, trends |-> <<>>,
      expected_daily_hours |-> get_expected_hours(location_type) ]

\* calculate_productivity_metrics from the fetched rows df on: the returned
\* dict, together with the locals the dict leaves out and the divisors of
\* its three divisions
WindowMetrics(df, start_date, end_date, location_type) ==
    LET total_hours == SumField(df, "total_hours")
        working_days == WorkingDays(df)
        avg_daily_hours == Rat(total_hours, AtLeastOne(working_days))
        expected_daily_hours == get_expected_hours(location_type)
        expected_days == DaysBetween(end_date, start_date)
        consistency_score == ConsistencyScore(working_days, expected_days)
        hours_score == HoursScore(avg_daily_hours, expected_daily_hours)
    IN IF df = <<>>
       THEN [ metrics |-> EmptyMetrics(location_type),
              start_date |-> start_date, end_date |-> end_date,
              df |-> df, rows |-> 0, scored |-> FALSE,
              expected_days |-> 0, hours_score |-> Zero, divisors |-> <<>> ]
       ELSE [ metrics |->
                [ total_hours |-> total_hours,
                  avg_daily_hours |-> avg_daily_hours,
                  working_days |-> working_days,
                  productivity_score |-> RatHalf(RatAdd(consistency_score, hours_score)),
                  mood_avg |-> Rat(SumField(df, "mood_score"), Len(df)),
                  energy_avg |-> Rat(SumField(df, "energy_level"), Len(df)),
                  activity_breakdown |-> ActivityBreakdown(df, <<>>),
                  breakdown_keys |-> BreakdownKeys(df, <<>>),
                  consistency_score |-> consistency_score,
                  expected_daily_hours |-> expected_daily_hours ],
              start_date |-> start_date, end_date |-> end_date,
              df |-> df, rows |-> Len(df), scored |-> TRUE,
              expected_days |-> expected_days, hours_score |-> hours_score,
              divisors |-> << AtLeastOne(working_days),
                              AtLeastOne(expected_days),
                              expected_daily_hours >> ]

\* ProductivityTracker.calculate_productivity_metrics, with date.today() = now
calculate_productivity_metrics(st, user_id, period, location_type, now, reply) ==
    LET end_date == now
        start_date == StartDate(period, end_date)
    IN CHOOSE r \in
          { WindowMetrics(df, start_date, end_date, location_type) :
              df \in { GetUserEntries(st, user_id, IsoFormat(start_date),
                                      IsoFormat(end_date), reply) } } : TRUE

(***************************************************************************)
(* Insight rules                                                           *)
(***************************************************************************)
Msg(kind, detail) == [kind |-> kind, detail |-> detail]

\* faulty variant of TierMessage: a threshold itself falls in the tier below
TierMessageStrict(productivity_score) ==
    IF RatLT(<<90, 1>>, productivity_score) THEN Msg("tier", "excellent")
    ELSE IF RatLT(<<75, 1>>, productivity_score) THEN Msg("tier", "good")
    ELSE IF RatLT(<<60, 1>>, productivity_score) THEN Msg("tier", "needs_improvement")
    ELSE Msg("tier", "needs_attention")

\* the productivity message: first threshold reached, in descending order
TierMessage(productivity_score) ==
    IF RatLE(<<90, 1>>, productivity_score) THEN Msg("tier", "excellent")
    ELSE IF RatLE(<<75, 1>>, productivity_score) THEN Msg("tier", "good")
    ELSE IF RatLE(<<60, 1>>, productivity_score) THEN Msg("tier", "needs_improvement")
    ELSE Msg("tier", "needs_attention")

\* faulty variant of HoursMessages: an average of exactly expected - 1 or
\* expected + 2 already gets the message of the band beyond it
HoursMessagesInclusive(avg_daily_hours, expected_hours) ==
    LET n == avg_daily_hours[1]
        d == avg_daily_hours[2]
    IN IF n <= (expected_hours - 10) * d THEN <<Msg("hours", "increase")>>
       ELSE IF n >= (expected_hours + 20) * d THEN <<Msg("hours", "high_volume")>>
       ELSE IF /\ n - expected_hours * d <= 5 * d
               /\ expected_hours * d - n <= 5 * d THEN <<Msg("hours", "meeting_target")>>
       ELSE <<>>

\* the hours message, if any (hours in tenths: 1h = 10, 2h = 20, 0.5h = 5)
HoursMessages(avg_daily_hours, expected_hours) ==
    LET avg10 == avg_daily_hours
        n == avg10[1]
        d == avg10[2]
    IN IF n < (expected_hours - 10) * d THEN <<Msg("hours", "increase")>>
       ELSE IF n > (expected_hours + 20) * d THEN <<Msg("hours", "high_volume")>>
       ELSE IF /\ n - expected_hours * d <= 5 * d
               /\ expected_hours * d - n <= 5 * d THEN <<Msg("hours", "meeting_target")>>
       ELSE <<>>

\* faulty variant of TopActivity: the last of the keys with the largest value
TopActivityLast(keys, activity_breakdown) ==
    LET i == CHOOSE x \in 1..Len(keys) :
                /\ \A j \in 1..Len(keys) :
                      activity_breakdown[keys[j]] <= activity_breakdown[keys[x]]
                /\ \A j \in (x + 1)..Len(keys) :
                      activity_breakdown[keys[j]] < activity_breakdown[keys[x]]
    IN keys[i]

\* max(activity_breakdown, key=activity_breakdown.get): the first key, in
\* the dict's iteration order keys, whose value no other key exceeds
TopActivity(keys, activity_breakdown) ==
    LET i == CHOOSE x \in 1..Len(keys) :
                /\ \A j \in 1..Len(keys) :
                      activity_breakdown[keys[j]] <= activity_breakdown[keys[x]]
                /\ \A j \in 1..(x - 1) :
                      activity_breakdown[keys[j]] < activity_breakdown[keys[x]]
    IN keys[i]

ActivityMessages(keys, activity_breakdown) ==
    IF keys # <<>>
    THEN <<Msg("activity", TopActivity(keys, activity_breakdown))>>
    ELSE <<>>

\* faulty variant of MoodMessages: no message for a month without scores
MoodMessagesOfScores(mood_avg) ==
    IF RatLT(<<0, 1>>, mood_avg) /\ RatLT(mood_avg, <<6, 1>>)
    THEN <<Msg("mood", "low")>> ELSE <<>>

MoodMessages(mood_avg) ==
    IF RatLT(mood_avg, <<6, 1>>) THEN <<Msg("mood", "low")>> ELSE <<>>

EnergyMessages(energy_avg) ==
    IF RatLT(energy_avg, <<6, 1>>) THEN <<Msg("energy", "low")>> ELSE <<>>

\* faulty variant of generate_insights: the energy rule before the mood rule
generate_insights_energy_first(st, user_id, location_type, now, reply) ==
    LET metrics == calculate_productivity_metrics(st, user_id, "month", location_type,
                                                  now, reply).metrics
        expected_hours == get_expected_hours(location_type)
    IN <<TierMessage(metrics.productivity_score)>>
       \o HoursMessages(metrics.avg_daily_hours, expected_hours)
       \o ActivityMessages(metrics.breakdown_keys, metrics.activity_breakdown)
       \o EnergyMessages(metrics.energy_avg)
       \o MoodMessages(metrics.mood_avg)

\* ProductivityTracker.generate_insights
generate_insights(st, user_id, location_type, now, reply) ==
    LET metrics == calculate_productivity_metrics(st, user_id, "month", location_type,
                                                  now, reply).metrics
        expected_hours == get_expected_hours(location_type)
    IN <<TierMessage(metrics.productivity_score)>>
       \o HoursMessages(metrics.avg_daily_hours, expected_hours)
       \o ActivityMessages(metrics.breakdown_keys, metrics.activity_breakdown)
       \o MoodMessages(metrics.mood_avg)
       \o EnergyMessages(metrics.energy_avg)

(***************************************************************************)
(* Calendar view                                                           *)
(***************************************************************************)
\* faulty variant of MonthEnd: December rolled over to January of the same
\* year
MonthEndSameYear(start_date) ==
    IF start_date[2] = 12
    THEN MinusDays(<<start_date[1], 1, start_date[3]>>, 1)
    ELSE MinusDays(<<start_date[1], start_date[2] + 1, start_date[3]>>, 1)

\* end_date: the day before the first day of the next month
MonthEnd(start_date) ==
    IF start_date[2] = 12
    THEN MinusDays(<<start_date[1] + 1, 1, start_date[3]>>, 1)
    ELSE MinusDays(<<start_date[1], start_date[2] + 1, start_date[3]>>, 1)

\* first_day - timedelta(days=first_day.weekday())
FirstMonday(first_day) == MinusDays(first_day, Weekday(first_day))

\* faulty variant of LastSunday: the days to the next Monday added
LastSundayNextWeek(last_day) == MinusDays(last_day, -(7 - Weekday(last_day)))

\* last_day + timedelta(days=(6 - last_day.weekday()))
LastSunday(last_day) == MinusDays(last_day, -(6 - Weekday(last_day)))

\* calendar_data: 0.0 for every day of the month, then each row's
\* total_hours at the row's date (a later row of the same date overwriting
\* an earlier one)
CalendarData(entries, month_dates) ==
    [i \in 1..Len(month_dates) |->
        LET rows == {r \in 1..Len(entries) : ParseIso(entries[r].date) = month_dates[i]}
        IN IF rows = {} THEN 0
           ELSE entries[CHOOSE r \in rows : \A q \in rows : q <= r].total_hours]

\* full_calendar_data: 0.0 for every day of the padded range, then the
\* month's days filled from calendar_data (a day of the padded range is the
\* m-th day of the month iff it lies m - 1 days after the month's first day)
FullCalendarData(full_calendar_range, month_dates, calendar_data) ==
    [i \in 1..Len(full_calendar_range) |->
        LET m == DaysBetween(full_calendar_range[i], month_dates[1]) + 1
        IN IF m \in 1..Len(month_dates) THEN calendar_data[m] ELSE 0]

\* full_calendar_data.values.reshape(weeks, 7), row-major
Reshape(values, weeks) ==
    [w \in 1..weeks |-> [d \in 1..7 |-> values[(w - 1) * 7 + d]]]

\* date_labels: the day of the month for the days of the month, '' for the
\* others
DateLabels(full_calendar_range, weeks, start_date, end_date) ==
    [w \in 1..weeks |-> [d \in 1..7 |->
        LET date_idx == (w - 1) * 7 + d
        IN IF date_idx <= Len(full_calendar_range)
           THEN (IF /\ ToOrdinal(start_date) <= ToOrdinal(full_calendar_range[date_idx])
                    /\ ToOrdinal(full_calendar_range[date_idx]) <= ToOrdinal(end_date)
                 THEN StrfDay(full_calendar_range[date_idx])
                 ELSE <<>>)
           ELSE <<>>]]

\* df['total_hours'].idxmax(): the first row, in the order of df, whose
\* total_hours no row exceeds
IdxMax(df) ==
    CHOOSE i \in 1..Len(df) :
        /\ \A j \in 1..Len(df) : df[j].total_hours <= df[i].total_hours
        /\ \A j \in 1..(i - 1) : df[j].total_hours < df[i].total_hours

\* How 'start_date <= date_obj <= end_date' compares a datetime.date with a
\* pandas Timestamp: pandas before 2.0 compares them as dates (with a
\* deprecation warning); pandas 2.0 and later raises TypeError.  The source
\* pins no version.
TimestampCompares == {"as_dates", "raises"}

\* show_calendar_view from the fetched entries on.  view is what is drawn:
\* "none" (no entries: only the notice), "heatmap" (the matrix with its
\* labels) or "bars" (the fallback chart of calendar_data, drawn when the
\* try block raises: a reshape of a length that is no multiple of 7, or the
\* comparison of the labels raising).
CalendarOf(entries, start_date, end_date, compare) ==
    LET month_dates == DateRange(start_date, end_date)
        calendar_data == CalendarData(entries, month_dates)
        first_monday == FirstMonday(start_date)
        last_sunday == LastSunday(end_date)
        full_calendar_range == DateRange(first_monday, last_sunday)
        weeks == Len(full_calendar_range) \div 7
        reshaped == Len(full_calendar_range) = weeks * 7
        labelled == reshaped /\ (weeks = 0 \/ compare = "as_dates")
        total_hours == SumField(entries, "total_hours")
        working_days == WorkingDays(entries)
    IN IF entries = <<>>
       THEN [ start_date |-> start_date, end_date |-> end_date, rows |-> 0,
              view |-> "none" ]
       ELSE [ start_date |-> start_date, end_date |-> end_date,
              rows |-> Len(entries),
              df_dates |-> [i \in 1..Len(entries) |-> entries[i].date],
              view |-> IF labelled THEN "heatmap" ELSE "bars",
              calendar_data |-> calendar_data,
              first_monday |-> first_monday, last_sunday |-> last_sunday,
              reshaped |-> reshaped,
              calendar_matrix |->
                 IF reshaped
                 THEN Reshape(FullCalendarData(full_calendar_range, month_dates,
                                               calendar_data), weeks)
                 ELSE <<>>,
              labelled |-> labelled,
              date_labels |->
                 IF labelled
                 THEN DateLabels(full_calendar_range, weeks, start_date, end_date)
                 ELSE <<>>,
              total_hours |-> total_hours,
              working_days |-> working_days,
              avg_hours |-> Rat(total_hours, Max(working_days, 1)),
              best_day_str |-> IsoFormat(ParseIso(entries[IdxMax(entries)].date)) ]

\* ProductivityTracker.show_calendar_view for the month of selected_month
show_calendar_view(st, user_id, selected_month, reply, compare) ==
    LET start_date == ReplaceDay1(selected_month)
        end_date == MonthEnd(start_date)
    IN CHOOSE r \in
          { CalendarOf(entries, start_date, end_date, compare) :
              entries \in { GetUserEntries(st, user_id, IsoFormat(start_date),
                                           IsoFormat(end_date), reply) } } : TRUE

(***************************************************************************)
(* The trend charts of the analytics tab                                   *)
(***************************************************************************)
TrendRows == 30

\* df.head(n)
HeadRows(df, n) == SubSeq(df, 1, Min(n, Len(df)))

\* df.sort_values('date') of a frame whose dates are all different
SortByDate(df) ==
    [r \in 1..Len(df) |->
        df[CHOOSE i \in 1..Len(df) :
             Cardinality({j \in 1..Len(df) :
                            ToOrdinal(df[j].date) < ToOrdinal(df[i].date)}) = r - 1]]

\* df_recent of show_personal_analytics: the first 30 rows of the entries,
\* their dates converted, sorted by date
DfRecent(entries) ==
    LET df == [i \in 1..Len(entries) |->
                 [ id |-> entries[i].id, date |-> ParseIso(entries[i].date),
                   total_hours |-> entries[i].total_hours,
                   mood_score |-> entries[i].mood_score,
                   energy_level |-> entries[i].energy_level ]]
    IN SortByDate(HeadRows(df, TrendRows))

\* the trend charts of show_personal_analytics: the dates of the fetched
\* entries in their order, and the rows that are drawn
TrendOf(st, user_id, reply) ==
    CHOOSE t \in
      { [ fetched |-> [i \in 1..Len(entries) |-> entries[i].date],
          df_recent |-> DfRecent(entries) ] :
        entries \in { GetUserEntries(st, user_id, <<>>, <<>>, reply) } } : TRUE

(***************************************************************************)
(* Export                                                                  *)
(***************************************************************************)
\* a payload that is a fixed message
Message(text) == [kind |-> "message", text |-> text]

NoDataMessage == Message("No data available for export")
InvalidFormatMessage == Message("Invalid format specified")

\* activity_cols: for every activity met in some row, a list with the row's
\* hours at the row's index and 0 elsewhere
ActivityCols(entries) ==
    [a \in UNION { DOMAIN entries[i].activity_data : i \in 1..Len(entries) } |->
        [i \in 1..Len(entries) |->
            IF a \in DOMAIN entries[i].activity_data
            THEN entries[i].activity_data[a] ELSE 0]]

\* f'activity_{activity}'
ActivityColumn(activity) == "activity_" \o activity

ColumnsToRemove == {"id", "user_id"}

\* export_df: each fetched row without activity_data and without the columns
\* to remove, with one column per key of activity_cols
ExportFrame(entries) ==
    LET activity_cols == ActivityCols(entries)
        kept == {"date", "total_hours", "notes", "work_location",
                 "mood_score", "energy_level"} \ ColumnsToRemove
        added == { ActivityColumn(a) : a \in DOMAIN activity_cols }
    IN [i \in 1..Len(entries) |->
          [c \in kept \cup added |->
              IF c \in added
              THEN activity_cols[CHOOSE a \in DOMAIN activity_cols :
                                   ActivityColumn(a) = c][i]
              ELSE entries[i][c]]]

\* round(export_df['total_hours'].mean(), 2) in hundredths of an hour (the
\* hours being tenths), halves rounded to the even neighbour
MeanHoursRounded(export_df) ==
    LET tenfold == 10 * SumField(export_df, "total_hours")
        q == tenfold \div Len(export_df)
        r == tenfold % Len(export_df)
    IN IF 2 * r < Len(export_df) THEN q
       ELSE IF 2 * r > Len(export_df) THEN q + 1
       ELSE IF q % 2 = 0 THEN q ELSE q + 1

\* the smallest and the largest of the date strings of export_df
DateExtreme(export_df, largest) ==
    LET dates == { export_df[i]["date"] : i \in 1..Len(export_df) }
    IN CHOOSE d \in dates :
          \A e \in dates : IF largest THEN StrLE(e, d) ELSE StrLE(d, e)

\* pd.Timestamp of a day at midnight, and NaT, the missing timestamp
Timestamp(d) == <<d[1], d[2], d[3], 0, 0, 0>>
NaT == <<0>>

\* whether a text reads "YYYY-MM-DD" with a month and a day that exist
IsIsoText(text) ==
    /\ Len(text) = 10
    /\ text[5] = Hyphen /\ text[8] = Hyphen
    /\ \A i \in {1, 2, 3, 4, 6, 7, 9, 10} : text[i] \in Digit(0)..Digit(9)
    /\ ParseIso(text)[1] >= 1
    /\ ParseIso(text)[2] \in 1..12
    /\ ParseIso(text)[3] \in 1..DaysInMonth(ParseIso(text)[1], ParseIso(text)[2])

\* pd.to_datetime(text, errors='coerce') for the texts of this model: the
\* timestamp of an ISO date, NaT for a text that is no date
ToDatetimeCoerce(text) ==
    IF IsIsoText(text) THEN Timestamp(ParseIso(text)) ELSE NaT

\* the columns of export_df whose dtype is object and whose values can
\* denote a date (a work_location never does)
TextColumns == {"date", "notes"}

\* fix_datetime_columns: a text column with at least one value that converts
\* is replaced by its conversion, the values that do not convert becoming NaT
FixDatetimeColumns(df) ==
    LET converts == { c \in TextColumns :
                        \E i \in 1..Len(df) : ToDatetimeCoerce(df[i][c]) # NaT }
    IN [i \in 1..Len(df) |->
          [c \in DOMAIN df[i] |->
              IF c \in converts THEN ToDatetimeCoerce(df[i][c]) ELSE df[i][c]]]

\* the CSV text of export_df: a header and one line per row
Csv(export_df) == [kind |-> "csv", rows |-> export_df]

\* the workbook: the sheet Productivity_Data and the sheet Summary
Xlsx(export_df) ==
    [ kind |-> "xlsx", rows |-> export_df,
      summary |-> [ total_entries |-> Len(export_df),
                    total_hours |-> SumField(export_df, "total_hours"),
                    average_daily_hours |-> MeanHoursRounded(export_df),
                    date_range |-> <<DateExtreme(export_df, FALSE),
                                     DateExtreme(export_df, TRUE)>> ] ]

\* the JSON envelope (export_date, the time of the call, is left out)
Json(export_df) ==
    [kind |-> "json", total_entries |-> Len(export_df), rows |-> export_df]

\* 'import openpyxl' and the Excel writer succeed, the import fails, or the
\* writer fails after the columns were fixed
ExcelWriters == {"available", "unavailable", "fails"}

\* export_data from the fetched entries on
ExportOf(entries, format_type, excel_writer) ==
    IF entries = <<>> THEN NoDataMessage
    ELSE IF format_type = "csv" THEN Csv(ExportFrame(entries))
    ELSE IF format_type = "excel"
    THEN (IF excel_writer = "available"
          THEN Xlsx(FixDatetimeColumns(ExportFrame(entries)))
          ELSE IF excel_writer = "fails"
          THEN Csv(FixDatetimeColumns(ExportFrame(entries)))
          ELSE Csv(ExportFrame(entries)))
    ELSE IF format_type = "json" THEN Json(ExportFrame(entries))
    ELSE InvalidFormatMessage

\* faulty variant of export_data: the format is served without the check
\* for an empty entry list
export_data_unchecked(st, user_id, format_type, reply, excel_writer) ==
    LET entries == GetUserEntries(st, user_id, <<>>, <<>>, reply)
    IN IF format_type = "csv" THEN Csv(ExportFrame(entries))
       ELSE IF format_type = "excel" THEN Csv(ExportFrame(entries))
       ELSE IF format_type = "json" THEN Json(ExportFrame(entries))
       ELSE InvalidFormatMessage

\* ProductivityTracker.export_data
export_data(st, user_id, format_type, reply, excel_writer) ==
    CHOOSE r \in
       { ExportOf(entries, format_type, excel_writer) :
           entries \in { GetUserEntries(st, user_id, <<>>, <<>>, reply) } } : TRUE

(***************************************************************************)
(* Teams, accounts and the session                                         *)
(***************************************************************************)
\* how an operation that can raise ends: with an exception that leaves it,
\* or with a value
Raised(error) == [raised |-> error]
Returned(value) == [value |-> value]

\* the third goal of a team, after daily_hours and weekly_hours (tenths)
TeamTarget(team) ==
    IF team = "database-operations" THEN <<"monthly_productivity", 850>>
    ELSE IF team = "migration-factory" THEN <<"migration_success_rate", 950>>
    ELSE <<"uptime_target", 999>>

\* _get_team_configurations, as far as register_user reads it: the goals of
\* each team for its two location profiles
team_configs ==
    [ team \in {"database-operations", "migration-factory", "backoffice-cloud"} |->
        [ goals |->
            [ offshore |-> [ daily_hours |-> OffshoreDailyHours,
                             weekly_hours |-> OffshoreWeeklyHours,
                             target |-> TeamTarget(team) ],
              onshore |-> [ daily_hours |-> OnshoreDailyHours,
                            weekly_hours |-> OnshoreWeeklyHours,
                            target |-> TeamTarget(team) ] ] ] ]

\* register_user up to the call of create_user: the user_data it builds, or
\* the KeyError of team_configs[team] or of goals[location_type]
UserData(name, email, password, role, team, location_type) ==
    IF team \notin DOMAIN team_configs THEN Raised("KeyError")
    ELSE IF location_type \notin DOMAIN team_configs[team].goals
    THEN Raised("KeyError")
    ELSE [ name |-> name, email |-> email, password |-> password,
           role |-> role, team |-> team, location_type |-> location_type,
           goals |-> team_configs[team].goals[location_type] ]

\* the uid Firebase Auth gives a new account: one no account has
NewUid(accs) ==
    IF \A e \in DOMAIN accs : accs[e].uid # <<117, 49>>
    THEN <<117, 49>> ELSE <<117, 50>>

\* how create_user can end: all three writes succeed; auth.create_user
\* raises; the write of the users document raises after the account was
\* created; the write of the productivity document raises after both
CreateOutcomes(accs, email) ==
    IF email \in DOMAIN accs THEN {"auth_rejects"}
    ELSE {"created", "auth_rejects", "users_write_fails", "marker_write_fails"}

\* user_doc of create_user
UserDoc(uid, user_data) ==
    [ uid |-> uid, name |-> user_data.name, email |-> user_data.email,
      role |-> user_data.role, team |-> user_data.team,
      location_type |-> user_data.location_type, goals |-> user_data.goals,
      last_login |-> "created", active |-> TRUE ]

\* FirestoreManager.create_user: the accounts of Firebase Auth, the users
\* collection and the productivity collection after it, and what it returns
create_user(accs, docs, marked, user_data, outcome) ==
    LET uid == NewUid(accs)
        accs1 == [e \in DOMAIN accs \cup {user_data.email} |->
                    IF e = user_data.email
                    THEN [uid |-> uid, password |-> user_data.password]
                    ELSE accs[e]]
        docs1 == [u \in DOMAIN docs \cup {uid} |->
                    IF u = uid THEN UserDoc(uid, user_data) ELSE docs[u]]
    IN IF outcome = "auth_rejects"
       THEN [accounts |-> accs, users |-> docs, productivity |-> marked,
             value |-> FALSE]
       ELSE IF outcome = "users_write_fails"
       THEN [accounts |-> accs1, users |-> docs, productivity |-> marked,
             value |-> FALSE]
       ELSE IF outcome = "marker_write_fails"
       THEN [accounts |-> accs1, users |-> docs1, productivity |-> marked,
             value |-> FALSE]
       ELSE [accounts |-> accs1, users |-> docs1,
             productivity |-> marked \cup {uid}, value |-> TRUE]

\* how the users collection answers a sign-in: the query and the update
\* succeed, the query raises, or the update of last_login raises
SignInReplies == {"ok", "query_fails", "update_fails"}

\* FirestoreManager.get_user_by_email: the document whose email is email,
\* with its id, or None
get_user_by_email(docs, email, reply) ==
    LET found == {uid \in DOMAIN docs : docs[uid].email = email}
    IN IF reply = "query_fails" \/ found = {} THEN None
       ELSE LET uid == CHOOSE u \in found : TRUE
            IN [ id |-> uid, uid |-> docs[uid].uid, name |-> docs[uid].name,
                 email |-> docs[uid].email, role |-> docs[uid].role,
                 team |-> docs[uid].team,
                 location_type |-> docs[uid].location_type,
                 goals |-> docs[uid].goals,
                 last_login |-> docs[uid].last_login,
                 active |-> docs[uid].active ]

\* FirestoreManager.update_last_login
update_last_login(docs, user_id, reply) ==
    IF reply = "update_fails" THEN docs
    ELSE [docs EXCEPT ![user_id].last_login = "login"]

\* FirestoreManager.verify_user_password: the users collection after it and
\* what it returns
verify_user_password(docs, email, password, reply) ==
    LET user == get_user_by_email(docs, email, reply)
    IN IF user # None
       THEN [users |-> update_last_login(docs, user.id, reply), value |-> user]
       ELSE [users |-> docs, value |-> None]

\* ProductivityTracker.authenticate_user
authenticate_user(docs, email, password, reply) ==
    verify_user_password(docs, email, password, reply)

\* st.session_state after a sign-in that found the user
SignedIn(user) == [user |-> user, authenticated |-> TRUE]

\* faulty variant of SignedOut: the user record is kept
SignedOutUserKept(sess) == [user |-> sess.user, authenticated |-> FALSE]

\* st.session_state after the sign-out button
SignedOut(sess) == [user |-> None, authenticated |-> FALSE]

\* run: whether the main interface is shown rather than the sign-in page
ShowsMainInterface(sess) == ~(~sess.authenticated \/ sess.user = None)

(***************************************************************************)
(* Inputs                                                                  *)
(***************************************************************************)
U1 == <<117, 49>>                 \* "u1"
U2 == <<117, 50>>                 \* "u2"
Users == {U1, U2}
Sessions == {"s1", "s2"}

Periods == {"week", "month", "quarter", "year"}
LocationTypes == {"onshore", "offshore"}

\* what the entry form submits: activity hours, notes, location, mood, energy
Form(activity_data, notes, work_location, mood_score, energy_level) ==
    [ activity_data |-> activity_data, notes |-> notes,
      work_location |-> work_location,
      mood_score |-> mood_score, energy_level |-> energy_level ]

StoreForms ==
    { Form([monitoring |-> 40, patching |-> 40], "", "office", 5, 5),
      Form([monitoring |-> 88], "on call", "remote", 8, 4),
      Form(<<>>, "", "office", 5, 5) }

MetricForms ==
    { Form([monitoring |-> 80, patching |-> 0], "", "office", 8, 8),
      Form([monitoring |-> 60, patching |-> 60], "release", "remote", 4, 4),
      Form([monitoring |-> 0, patching |-> 0], "", "office", 5, 5) }

WeekForms ==
    { Form([monitoring |-> 80], "", "office", 5, 5),
      Form([monitoring |-> 88], "", "office", 5, 5) }

\* the activity ids of the forms below, and the orders a map can yield them in
ActivityIds == {"monitoring", "patching"}
KeyOrders == Orderings(ActivityIds)

\* the store orders the documents; maps yield their keys alphabetically
Ordered == Reply("ordered", <<>>, <<"monitoring", "patching">>)

\* every way the store can answer a query that matches the documents ids
RepliesOver(ids) ==
    { Reply(status, <<>>, k) : status \in {"ordered", "error"}, k \in KeyOrders }
    \cup { Reply("unordered", a, k) : a \in Orderings(ids), k \in KeyOrders }

\* every way the store can answer a query over the documents of st
Replies(st) == RepliesOver(DOMAIN st)

\* SpecTier: one entry of today, whose hours put the month's score on and
\* next to the tier thresholds (onshore 1.6h -> 60, 4.0h -> 75, 6.4h -> 90;
\* offshore 4.4h -> 75)
TierHours == {0, 15, 16, 39, 40, 44, 63, 64, 88}
TierForms == { Form([monitoring |-> h], "", "office", 5, 5) : h \in TierHours }

\* SpecHours: daily hours on and next to the limits of the hours bands
\* (onshore 7.0, 7.5, 8.5, 10.0; offshore 7.8, 8.3, 9.3, 10.8)
BandHours == {0, 69, 70, 74, 75, 77, 78, 82, 83, 85, 86, 93, 94, 100, 101, 108, 109}
BandForms == { Form([monitoring |-> h], "", "office", 5, 5) : h \in BandHours }

\* SpecBreakdown: entries whose activities tie, within one entry and across
\* entries, and an entry without activities
BreakdownForms ==
    { Form([monitoring |-> 40], "", "office", 5, 5),
      Form([patching |-> 40], "", "office", 5, 5),
      Form([monitoring |-> 30, patching |-> 50], "", "remote", 5, 5),
      Form(<<>>, "", "office", 5, 5) }

\* the ways the store can answer the calendar's query for the month of
\* selected_month, maps yielding their keys alphabetically
CalendarReplies(st, user_id, selected_month) ==
    LET start_date == ReplaceDay1(selected_month)
        matching == MatchingIds(st, user_id, IsoFormat(start_date),
                                IsoFormat(MonthEnd(start_date)))
    IN { r \in RepliesOver(matching) : r.key_order = Ordered.key_order }

\* SpecCalendar: entries in February 2021 (which begins on a Monday and ends
\* on a Sunday) and on the last two days of December 2024 (a month that
\* begins on a Sunday: six weeks, from 25 November to 5 January)
CalendarForms ==
    { Form([monitoring |-> 80, patching |-> 0], "", "office", 8, 8),
      Form([monitoring |-> 60, patching |-> 60], "release", "remote", 4, 4) }
CalendarDates == { <<2021, 2, 1>>, <<2024, 12, 30>>, <<2024, 12, 31>> }
SelectedMonths == { <<2021, 2, 28>>, <<2024, 12, 15>> }

\* SpecMonths: a date selected in every month of a common and of a leap
\* year, and one entry date
MonthAnchors ==
    { <<y, m, d>> : y \in {2023, 2024}, m \in 1..12, d \in {1, 28} }
    \cup { <<2024, 2, 29>>, <<2024, 12, 31>>, <<2023, 4, 30>> }
MonthDates == { <<2024, 12, 31>> }

\* SpecExport: the formats of the three export buttons and one that is none
\* of them; entries with different sets of activities
FormatTypes == {"csv", "excel", "json", "pdf"}
NoteLate == <<108, 97, 116, 101>>                   \* "late"
NoteDue == IsoFormat(<<2024, 3, 1>>)                \* "2024-03-01"
ExportForms ==
    { Form([monitoring |-> 40], <<>>, "office", 5, 5),
      Form([patching |-> 45], NoteLate, "remote", 4, 6),
      Form(<<>>, NoteDue, "office", 5, 5) }

\* the ways the store can answer the query for all entries of a user, maps
\* yielding their keys alphabetically
ExportReplies(st, user_id) ==
    { r \in RepliesOver(MatchingIds(st, user_id, <<>>, <<>>)) :
        r.key_order = Ordered.key_order }

\* SpecProfile: the two location types, values that are neither, and user
\* records with and without a location type
ProfileLocations ==
    {"onshore", "offshore", "Offshore", "OFFSHORE", "off-shore", "hybrid", ""}
ProfileUsers ==
    { [id |-> U1, location_type |-> l] : l \in ProfileLocations }
    \cup { [id |-> U1] }

\* SpecCore: the store answers a query or fails it; two entry forms; the
\* last day of the month before and today
Failed == Reply("error", <<>>, <<"monitoring", "patching">>)
CoreReplies == {Ordered, Failed}
CoreForms ==
    { Form([monitoring |-> 80, patching |-> 0], <<>>, "office", 8, 8),
      Form([monitoring |-> 60, patching |-> 60], NoteLate, "remote", 4, 4) }
CoreDates(user_id, now) ==
    IF user_id = U1 THEN {MinusDays(ReplaceDay1(now), 1), now} ELSE {now}
CorePeriods == {"week", "month"}
CoreFormats == {"csv", "excel", "json"}

\* SpecGuards: the first day of a month (the month window starts and ends on
\* it) and the day after; entries without hours, without activities, and
\* with hours
GuardTodays == {<<2024, 3, 1>>, <<2024, 3, 2>>}
GuardForms ==
    { Form([monitoring |-> 0, patching |-> 0], "", "office", 5, 5),
      Form(<<>>, "", "office", 5, 5),
      Form([monitoring |-> 80], "", "office", 6, 7) }
GuardLocations == {"onshore", "offshore", "hybrid"}

\* SpecIds: user ids with underscores, one of them the document id of an
\* entry of u1, and two days of a month
IdDays == {<<2024, 3, 1>>, <<2024, 3, 2>>}
IdUsers == {U1, U1 \o <<Underscore>>, U1 \o <<Underscore>> \o IsoFormat(<<2024, 3, 1>>)}

\* SpecSession: two e-mail addresses and two passwords; a team of the
\* configuration and one that is not; the two location types and one that
\* is neither
Emails == {"ann@corp.example", "bob@corp.example"}
Passwords == {"secret1", "hunter22"}
Teams == {"database-operations", "sales"}
RegisterLocations == {"onshore", "offshore", "hybrid"}

\* SpecTrend: a user who logs one day after the other, from 31 January on,
\* up to today: 32 days at most
TrendForms == { Form([monitoring |-> 80], "", "office", 6, 7) }
TrendFirstDays == { <<2024, 1, 31>> }
NextTrendDays(st, user_id, now) ==
    LET mine == {id \in DOMAIN st : st[id].user_id = user_id}
        logged == {ToOrdinal(ParseIso(st[id].date)) : id \in mine}
    IN IF mine = {} THEN TrendFirstDays
       ELSE {FromOrdinal(o + 1) : o \in {x \in logged :
               (\A y \in logged : y <= x) /\ x < ToOrdinal(now)}}

\* the ways the store can answer the query for all entries of a user: in
\* order, with a failure, or unordered, oldest first or newest half last
TrendReplies(st, user_id) ==
    LET desc == OrderByDateDesc(st, MatchingIds(st, user_id, <<>>, <<>>))
        n == Len(desc)
        oldest_first == [i \in 1..n |-> desc[n + 1 - i]]
        halves == SubSeq(desc, (n \div 2) + 1, n) \o SubSeq(desc, 1, n \div 2)
    IN {Ordered, Failed}
       \cup {Reply("unordered", a, Ordered.key_order) : a \in {oldest_first, halves}}

BaseToday == <<2024, 3, 2>>
Todays == {<<2024, 3, 2>>, <<2025, 1, 8>>}

\* entry dates, as days before today (-1 is tomorrow)
StoreOffsets == {0, 1}
\* SpecMetrics: tomorrow, and the first day of each period's window with the
\* day before it
MetricDates(now) ==
    {MinusDays(now, -1), now}
    \cup UNION { {StartDate(p, now), MinusDays(StartDate(p, now), 1)} : p \in Periods }
\* SpecBreakdown: today, the first of the month and the day before it
BreakdownDates(now) ==
    {now, ReplaceDay1(now), MinusDays(ReplaceDay1(now), 1)}
\* SpecWeek: today and the WeekBack days before it
WeekDates(now) == {MinusDays(now, k) : k \in 0..WeekBack}

(***************************************************************************)
(* Entry submission                                                        *)
(***************************************************************************)
\* the write ProductivityTracker.save_daily_entry hands to the store
WriteOf(user_id, d, form) ==
    LET entry_data == EntryData(IsoFormat(d), form.activity_data, form.notes,
                                form.work_location, form.mood_score, form.energy_level)
    IN [ doc_id |-> DocId(user_id, entry_data.date),
         entry_doc |-> EntryDoc(user_id, entry_data) ]

NoHist == [count |-> 0]

\* nothing has returned yet
NoResult == [op |-> "none"]

\* st.session_state as _init_session_state leaves it
NoSession == [user |-> None, authenticated |-> FALSE]

\* no generate_insights call has been remembered yet
NoAdvice == [calls |-> 0]

HistOf(h, doc_id) == IF doc_id \in DOMAIN h THEN h[doc_id] ELSE NoHist

\* hist after a write is applied: the document last written to doc_id, how
\* many writes it has had, and whether this one overlapped another in flight
Logged(h, doc_id, entry_doc, overlap) ==
    [id \in DOMAIN h \cup {doc_id} |->
        IF id = doc_id
        THEN [ last |-> entry_doc, count |-> HistOf(h, doc_id).count + 1,
               raced |-> overlap ]
        ELSE h[id]]

\* save_daily_entry up to the call of document(doc_id).set
SaveBegin(s, user_id, d, form) ==
    /\ pending[s] = None
    /\ writes < MaxWrites
    /\ LET w == WriteOf(user_id, d, form)
           others == {t \in Sessions \ {s} :
                        pending[t] # None /\ pending[t].doc_id = w.doc_id}
       IN pending' = [t \in Sessions |->
                        IF t = s
                        THEN [doc_id |-> w.doc_id, entry_doc |-> w.entry_doc,
                              overlap |-> others # {}]
                        ELSE IF t \in others
                        THEN [pending[t] EXCEPT !.overlap = TRUE]
                        ELSE pending[t]]
    /\ writes' = writes + 1
    /\ UNCHANGED <<store, hist, today, result, advice, accounts, users, productivity, session>>

\* the store applies the write and save_daily_entry returns True, or the
\* call raises and save_daily_entry returns False
SaveCommit(s, store_ok) ==
    /\ pending[s] # None
    /\ IF store_ok
       THEN /\ store' = SetMerge(store, pending[s].doc_id, pending[s].entry_doc)
            /\ hist' = Logged(hist, pending[s].doc_id, pending[s].entry_doc,
                              pending[s].overlap)
       ELSE UNCHANGED <<store, hist>>
    /\ pending' = [pending EXCEPT ![s] = None]
    /\ result' = [op |-> "save", value |-> store_ok]
    /\ UNCHANGED <<writes, today, advice, accounts, users, productivity, session>>

Init ==
    /\ store = <<>>
    /\ pending = [s \in Sessions |-> None]
    /\ hist = <<>>
    /\ writes = 0
    /\ today = BaseToday
    /\ result = NoResult
    /\ advice = NoAdvice
    /\ accounts = <<>>
    /\ users = <<>>
    /\ productivity = {}
    /\ session = NoSession

Next ==
    \/ \E s \in Sessions, u \in Users, k \in StoreOffsets, f \in StoreForms :
          SaveBegin(s, u, MinusDays(today, k), f)
    \/ \E s \in Sessions, ok \in BOOLEAN : SaveCommit(s, ok)

Spec == Init /\ [][Next]_vars

(***************************************************************************)
(* The handlers run one at a time by a single session                      *)
(***************************************************************************)
\* the writes save_daily_entry can issue for a user from given dates and forms
Writes(user_id, dates, forms) ==
    {WriteOf(user_id, d, f) : d \in dates, f \in forms}

\* save_daily_entry with no other write in flight, issuing the write w; at
\* most cap entries are kept in the store
SaveEntry(w, cap) ==
    /\ Cardinality(DOMAIN store \cup {w.doc_id}) <= cap
    /\ store' = SetMerge(store, w.doc_id, w.entry_doc)
    /\ result' = [op |-> "save", value |-> TRUE]
    /\ UNCHANGED <<pending, hist, writes, today, advice, accounts, users, productivity, session>>

\* a page calls calculate_productivity_metrics
Calc(user_id, period, location_type, reply) ==
    /\ result' = [ op |-> "metrics", user_id |-> user_id, period |-> period,
                   location_type |-> location_type,
                   store_ok |-> reply.status # "error",
                   out |-> calculate_productivity_metrics(store, user_id, period,
                                                          location_type, today, reply) ]
    /\ UNCHANGED <<store, pending, hist, writes, today, advice, accounts, users, productivity, session>>

\* what the goals page obtains: the messages of generate_insights, with the
\* month's metrics they were derived from and the rows these were computed
\* from (the page computes the metrics again for its goal tracking)
InsightsResult(user_id, location_type, reply) ==
    CHOOSE r \in
      { [ op |-> "insights", user_id |-> user_id,
          location_type |-> location_type,
          store_ok |-> reply.status # "error",
          metrics |-> c.metrics,
          df |-> c.df,
          out |-> generate_insights(store, user_id, location_type, today, reply) ] :
        c \in { calculate_productivity_metrics(store, user_id, "month",
                                                location_type, today, reply) } } : TRUE

\* the goals page calls generate_insights
Insights(user_id, location_type, reply) ==
    /\ result' = InsightsResult(user_id, location_type, reply)
    /\ UNCHANGED <<store, pending, hist, writes, today, advice, accounts, users, productivity, session>>

\* the goals page calls generate_insights, and the score and the tier of
\* this call and of the call before it are remembered in advice
InsightsLogged(user_id, location_type, reply) ==
    /\ result' = InsightsResult(user_id, location_type, reply)
    /\ advice' = [ calls |-> Min(advice.calls + 1, 2),
                   score |-> result'.metrics.productivity_score,
                   tier |-> result'.out[1].detail,
                   prev_score |-> IF advice.calls = 0 THEN Zero ELSE advice.score,
                   prev_tier |-> IF advice.calls = 0 THEN "" ELSE advice.tier ]
    /\ UNCHANGED <<store, pending, hist, writes, today, accounts, users, productivity, session>>

InitMetrics ==
    /\ store = <<>>
    /\ pending = [s \in Sessions |-> None]
    /\ hist = <<>>
    /\ writes = 0
    /\ today \in Todays
    /\ result = NoResult
    /\ advice = NoAdvice
    /\ accounts = <<>>
    /\ users = <<>>
    /\ productivity = {}
    /\ session = NoSession

NextMetrics ==
    \/ \E w \in Writes(U1, MetricDates(today), MetricForms) :
          SaveEntry(w, MaxEntries)
    \/ \E p \in Periods, l \in LocationTypes : Calc(U1, p, l, Ordered)
    \/ \E l \in LocationTypes : Insights(U1, l, Ordered)

SpecMetrics == InitMetrics /\ [][NextMetrics]_vars

\* one user filling the days of a week window, and the week metrics
NextWeek ==
    \/ \E w \in Writes(U1, WeekDates(today), WeekForms) :
          SaveEntry(w, WeekBack + 1)
    \/ \E l \in LocationTypes : Calc(U1, "week", l, Ordered)

SpecWeek == Init /\ [][NextWeek]_vars

\* one user rewriting today's entry and opening the goals page
NextTier ==
    \/ \E w \in Writes(U1, {today}, TierForms) : SaveEntry(w, MaxEntries)
    \/ \E l \in LocationTypes : InsightsLogged(U1, l, Ordered)

SpecTier == Init /\ [][NextTier]_vars

\* one user writing the entries of the first of the month and of today, and
\* opening the goals page
NextHours ==
    \/ \E w \in Writes(U1, {ReplaceDay1(today), today}, BandForms) :
          SaveEntry(w, MaxEntries)
    \/ \E l \in LocationTypes : Insights(U1, l, Ordered)

SpecHours == Init /\ [][NextHours]_vars

\* one user writing entries around the start of the month and opening the
\* goals page, the store answering in any of its ways
NextBreakdown ==
    \/ \E w \in Writes(U1, BreakdownDates(today), BreakdownForms) :
          SaveEntry(w, MaxEntries)
    \/ \E l \in LocationTypes, r \in Replies(store) : Insights(U1, l, r)

SpecBreakdown == Init /\ [][NextBreakdown]_vars

\* the calendar tab is opened with a date of some month selected
Calendar(user_id, selected_month, reply, compare) ==
    /\ result' = [ op |-> "calendar", user_id |-> user_id,
                   selected_month |-> selected_month,
                   store_ok |-> reply.status # "error",
                   compare |-> compare,
                   out |-> show_calendar_view(store, user_id, selected_month,
                                              reply, compare) ]
    /\ UNCHANGED <<store, pending, hist, writes, today, advice, accounts, users, productivity, session>>

\* one user writing entries and opening the calendar of their months, the
\* store answering in any of its ways
NextCalendar ==
    \/ \E w \in Writes(U1, CalendarDates, CalendarForms) :
          SaveEntry(w, Cardinality(CalendarDates))
    \/ \E d \in SelectedMonths, c \in TimestampCompares :
          \E r \in CalendarReplies(store, U1, d) : Calendar(U1, d, r, c)

SpecCalendar == Init /\ [][NextCalendar]_vars

\* one user opening the calendar with a date of any month selected
NextMonths ==
    \/ \E w \in Writes(U1, MonthDates, CalendarForms) :
          SaveEntry(w, Cardinality(MonthDates))
    \/ \E d \in MonthAnchors, c \in TimestampCompares : Calendar(U1, d, Ordered, c)

SpecMonths == Init /\ [][NextMonths]_vars

\* the entry form is submitted: save_daily_entry writes the entry and returns
\* True, or the store raises and it returns False
Submit(user_id, d, form, store_ok) ==
    /\ store' = IF store_ok
                THEN SetMerge(store, WriteOf(user_id, d, form).doc_id,
                              WriteOf(user_id, d, form).entry_doc)
                ELSE store
    /\ result' = [ op |-> "save", value |-> store_ok, user_id |-> user_id,
                   date |-> IsoFormat(d) ]
    /\ UNCHANGED <<pending, hist, writes, today, advice, accounts, users, productivity, session>>

\* a page works out the profile of a user record: the expected daily and
\* weekly hours of its location type
WorkProfile(user) ==
    /\ result' = [ op |-> "profile", user |-> user,
                   location_type |-> LocationTypeOf(user),
                   daily |-> get_expected_hours(LocationTypeOf(user)),
                   weekly |-> get_expected_weekly_hours(LocationTypeOf(user)) ]
    /\ UNCHANGED <<store, pending, hist, writes, today, advice, accounts, users, productivity, session>>

\* one user rewriting today's entry, the profile of user records and the
\* month's metrics for every location type
NextProfile ==
    \/ \E w \in Writes(U1, {today}, TierForms) : SaveEntry(w, 1)
    \/ \E u \in ProfileUsers : WorkProfile(u)
    \/ \E l \in ProfileLocations : Calc(U1, "month", l, Ordered)

SpecProfile == Init /\ [][NextProfile]_vars

\* an export button of the settings tab is pressed
Export(user_id, format_type, reply, excel_writer) ==
    /\ result' = [ op |-> "export", user_id |-> user_id,
                   format_type |-> format_type,
                   store_ok |-> reply.status # "error",
                   out |-> export_data(store, user_id, format_type, reply,
                                       excel_writer) ]
    /\ UNCHANGED <<store, pending, hist, writes, today, advice, accounts, users, productivity, session>>

\* one user writing the entries of two days, a second user writing none, and
\* either of them exporting
NextExport ==
    \/ \E w \in Writes(U1, {MinusDays(today, 1), today}, ExportForms) :
          SaveEntry(w, 2)
    \/ \E u \in Users, f \in FormatTypes, x \in ExcelWriters :
          \E r \in ExportReplies(store, u) : Export(u, f, r, x)

SpecExport == Init /\ [][NextExport]_vars

\* two users submitting entries and opening the pages that read them, the
\* store answering or failing each call
NextCore ==
    \/ \E u \in Users, ok \in BOOLEAN :
          \E d \in CoreDates(u, today), f \in CoreForms : Submit(u, d, f, ok)
    \/ \E u \in Users, p \in CorePeriods, l \in LocationTypes, r \in CoreReplies :
          Calc(u, p, l, r)
    \/ \E u \in Users, l \in LocationTypes, r \in CoreReplies : Insights(u, l, r)
    \/ \E u \in Users, f \in CoreFormats, r \in CoreReplies :
          Export(u, f, r, "available")
    \/ \E u \in Users, c \in TimestampCompares, r \in CoreReplies :
          Calendar(u, today, r, c)

SpecCore == Init /\ [][NextCore]_vars

\* the analytics tab draws its trend charts
Trend(user_id, reply) ==
    /\ result' = [ op |-> "trend", user_id |-> user_id,
                   store_ok |-> reply.status # "error",
                   status |-> reply.status,
                   out |-> TrendOf(store, user_id, reply) ]
    /\ UNCHANGED <<store, pending, hist, writes, today, advice, accounts, users,
                   productivity, session>>

\* one user logging day after day and opening the analytics tab
NextTrend ==
    \/ \E w \in Writes(U1, NextTrendDays(store, U1, today), TrendForms) :
          SaveEntry(w, Cardinality(DOMAIN store) + 1)
    \/ \E r \in TrendReplies(store, U1) : Trend(U1, r)

SpecTrend == Init /\ [][NextTrend]_vars

\* register_user is called
Register(email, password, team, location_type, outcome) ==
    LET user_data == UserData("Ann", email, password, "employee", team,
                              location_type)
    IN /\ IF "raised" \in DOMAIN user_data
          THEN /\ result' = [ op |-> "register", email |-> email, team |-> team,
                              location_type |-> location_type,
                              out |-> user_data ]
               /\ UNCHANGED <<accounts, users, productivity>>
          ELSE \E c \in { create_user(accounts, users, productivity,
                                       user_data, outcome) } :
                 /\ accounts' = c.accounts
                 /\ users' = c.users
                 /\ productivity' = c.productivity
                 /\ result' = [ op |-> "register", email |-> email,
                                team |-> team, location_type |-> location_type,
                                out |-> Returned(c.value) ]
       /\ UNCHANGED <<store, pending, hist, writes, today, advice, session>>

\* the sign-in form is submitted with an e-mail address and a password
SignIn(email, password, reply) ==
    /\ ~ShowsMainInterface(session)
    /\ \E v \in { authenticate_user(users, email, password, reply) } :
          /\ users' = v.users
          /\ session' = IF v.value # None THEN SignedIn(v.value) ELSE session
          /\ result' = [ op |-> "sign_in", email |-> email,
                         password |-> password, out |-> v.value ]
    /\ UNCHANGED <<store, pending, hist, writes, today, advice, accounts,
                   productivity>>

\* the sign-out button of the sidebar is pressed
SignOut ==
    /\ ShowsMainInterface(session)
    /\ session' = SignedOut(session)
    /\ result' = [op |-> "sign_out"]
    /\ UNCHANGED <<store, pending, hist, writes, today, advice, accounts, users,
                   productivity>>

\* run shows the main interface, whose sidebar computes the month's metrics
\* of the user of the session
MainInterface ==
    /\ ShowsMainInterface(session)
    /\ result' = [ op |-> "main", user_id |-> session.user.id,
                   location_type |-> LocationTypeOf(session.user),
                   out |-> calculate_productivity_metrics(
                             store, session.user.id, "month",
                             LocationTypeOf(session.user), today, Ordered) ]
    /\ UNCHANGED <<store, pending, hist, writes, today, advice, accounts, users,
                   productivity, session>>

\* accounts being registered, and one browser session signing in and out
NextSession ==
    \/ \E e \in Emails, p \in Passwords, t \in Teams, l \in RegisterLocations :
          \E o \in CreateOutcomes(accounts, e) : Register(e, p, t, l, o)
    \/ \E e \in Emails, p \in Passwords, r \in SignInReplies : SignIn(e, p, r)
    \/ SignOut
    \/ MainInterface

SpecSession == Init /\ [][NextSession]_vars

\* users whose ids hold underscores submitting entries for two days
NextIds ==
    \E u \in IdUsers, d \in IdDays, f \in CoreForms, ok \in BOOLEAN : Submit(u, d, f, ok)

SpecIds == Init /\ [][NextIds]_vars

InitGuards ==
    /\ store = <<>>
    /\ pending = [s \in Sessions |-> None]
    /\ hist = <<>>
    /\ writes = 0
    /\ today \in GuardTodays
    /\ result = NoResult
    /\ advice = NoAdvice
    /\ accounts = <<>>
    /\ users = <<>>
    /\ productivity = {}
    /\ session = NoSession

\* one user writing the entries of today and of the day before, and the
\* metrics of every period
NextGuards ==
    \/ \E w \in Writes(U1, {MinusDays(today, 1), today}, GuardForms) :
          SaveEntry(w, 2)
    \/ \E p \in Periods, l \in GuardLocations : Calc(U1, p, l, Ordered)

SpecGuards == InitGuards /\ [][NextGuards]_vars

(***************************************************************************)
(* Properties of the entry store                                           *)
(***************************************************************************)
\* the stored entries of one (user, date)
EntriesOf(user_id, date_str) ==
    {id \in DOMAIN store : store[id].user_id = user_id /\ store[id].date = date_str}

InFlight(doc_id) ==
    \E s \in Sessions : pending[s] # None /\ pending[s].doc_id = doc_id

\* C1: every stored entry's total_hours is the sum of the values of its
\* stored activity_data map, after any sequence of saves.
C1_TotalHoursIsSum ==
    \A id \in DOMAIN store :
        store[id].total_hours = SumValues(store[id].activity_data)

\* C2: after a second (or later) save of the same (user, date), issued when
\* no other write to it was in flight, exactly one entry is stored for the
\* key and every field of it is the value given by that save.
C2_SecondSaveWins ==
    \A id \in DOMAIN hist :
        (hist[id].count >= 2 /\ ~hist[id].raced) =>
            /\ store[id] = hist[id].last
            /\ Cardinality(EntriesOf(hist[id].last.user_id, hist[id].last.date)) = 1

\* C3: once concurrently issued saves of one (user, date) have all been
\* applied, the stored entry is exactly the document of the write applied
\* last: no field and no activity key of the other write survives.
C3_ConcurrentLastWriteWins ==
    \A id \in DOMAIN hist :
        (hist[id].raced /\ ~InFlight(id)) => store[id] = hist[id].last

(***************************************************************************)
(* Properties of the metrics engine                                        *)
(***************************************************************************)
Hundred == <<100, 1>>

\* the stored entries of a user dated from first to last, both included
EntriesBetween(user_id, first, last) ==
    { id \in DOMAIN store :
        /\ store[id].user_id = user_id
        /\ ToOrdinal(ParseIso(store[id].date)) >= ToOrdinal(first)
        /\ ToOrdinal(ParseIso(store[id].date)) <= ToOrdinal(last) }

RECURSIVE TotalHoursOf(_)
TotalHoursOf(ids) ==
    IF ids = {} THEN 0
    ELSE LET i == CHOOSE x \in ids : TRUE
         IN store[i].total_hours + TotalHoursOf(ids \ {i})

IsMetrics == result.op = "metrics"

\* C4: the productivity score of every metrics result lies in 0..100.
C4_ScoreWithin0And100 ==
    IsMetrics =>
        /\ RatLE(Zero, result.out.metrics.productivity_score)
        /\ RatLE(result.out.metrics.productivity_score, Hundred)

\* C5: the working days counted from the fetched entries never exceed
\* expected_days, so the consistency score is at most 100.
C5_WorkingDaysWithinExpectedDays ==
    (IsMetrics /\ result.out.scored) =>
        /\ result.out.metrics.working_days <= result.out.expected_days
        /\ RatLE(result.out.metrics.consistency_score, Hundred)

\* C6: on a window without entries the result has productivity score, total
\* hours, working days, average daily hours, mood and energy averages and
\* consistency score 0, an empty activity breakdown, and the expected daily
\* hours of the location type (8.8 offshore, 8.0 otherwise).
C6_EmptyWindowIsZero ==
    (IsMetrics /\ result.out.rows = 0) =>
        LET m == result.out.metrics
        IN /\ m.productivity_score = Zero
           /\ m.total_hours = 0
           /\ m.working_days = 0
           /\ m.avg_daily_hours = Zero
           /\ m.mood_avg = Zero
           /\ m.energy_avg = Zero
           /\ DOMAIN m.activity_breakdown = {}
           /\ m.expected_daily_hours =
                (IF result.location_type = "offshore" THEN 88 ELSE 80)
           /\ "consistency_score" \in DOMAIN m
           /\ m.consistency_score = Zero

\* C7: hours_score is at most 100, and is 100 whenever the average daily
\* hours reach the expected daily hours.
C7_HoursScoreCapped ==
    (IsMetrics /\ result.out.scored) =>
        /\ RatLE(result.out.hours_score, Hundred)
        /\ (RatLE(<<result.out.metrics.expected_daily_hours, 1>>,
                  result.out.metrics.avg_daily_hours)
              => result.out.hours_score = Hundred)

\* C7 witness: a result whose average daily hours exceed the expected hours
C7_Witness ==
    /\ IsMetrics /\ result.out.scored
    /\ RatLT(<<result.out.metrics.expected_daily_hours, 1>>,
             result.out.metrics.avg_daily_hours)
    /\ result.out.hours_score = Hundred

\* the entries of the result's user in the 'week' window of today
WeekEntries == EntriesBetween(result.user_id, MinusDays(today, 7), today)

AllAtExpected(ids, location_type) ==
    \A id \in ids :
        store[id].total_hours = (IF location_type = "offshore" THEN 88 ELSE 80)

C9_WindowOfPeriod ==
    IsMetrics =>
        LET o == result.out
            inside == EntriesBetween(result.user_id, o.start_date, o.end_date)
        IN /\ o.end_date = today
           /\ (result.period = "week" =>
                 ToOrdinal(o.start_date) = ToOrdinal(today) - 7)
           /\ (result.period = "month" =>
                 o.start_date = <<today[1], today[2], 1>>)
           /\ (result.period = "quarter" =>
                 ToOrdinal(o.start_date) = ToOrdinal(today) - 90)
           /\ (result.period \notin {"week", "month", "quarter"} =>
                 ToOrdinal(o.start_date) = ToOrdinal(today) - 30)
           /\ (result.store_ok =>
                 /\ o.rows = Cardinality(inside)
                 /\ o.metrics.total_hours = TotalHoursOf(inside)
                 /\ o.metrics.working_days =
                      Cardinality({id \in inside : store[id].total_hours > 0}))

\* C9 witness: a month result that counts an entry and leaves out an entry
\* with hours dated before the first of the month
C9_Witness ==
    /\ IsMetrics /\ result.period = "month" /\ result.out.rows >= 1
    /\ \E id \in DOMAIN store :
          /\ store[id].user_id = result.user_id
          /\ store[id].total_hours > 0
          /\ ToOrdinal(ParseIso(store[id].date)) < ToOrdinal(result.out.start_date)

MessageRank(kind) ==
    IF kind = "tier" THEN 1
    ELSE IF kind = "hours" THEN 2
    ELSE IF kind = "activity" THEN 3
    ELSE IF kind = "mood" THEN 4
    ELSE 5

\* C10: generate_insights returns 1 to 5 messages, the tier message first,
\* then at most one each of the hours, top-activity, low-mood and low-energy
\* messages, in that order.
C10_InsightsOrdered ==
    result.op = "insights" =>
        /\ Len(result.out) \in 1..5
        /\ result.out[1].kind = "tier"
        /\ \A i \in 1..Len(result.out) :
              result.out[i].kind \in {"tier", "hours", "activity", "mood", "energy"}
        /\ \A i, j \in 1..Len(result.out) :
              i < j => MessageRank(result.out[i].kind) < MessageRank(result.out[j].kind)

\* C10 witness: all five messages are returned
C10_Witness == result.op = "insights" /\ Len(result.out) = 5

(***************************************************************************)
(* Properties of the insight rules                                         *)
(***************************************************************************)
IsInsights == result.op = "insights"

\* the messages of a kind among the returned ones
MessagesOf(kind) == SelectSeq(result.out, LAMBDA m : m.kind = kind)

TierRank(tier) ==
    IF tier = "excellent" THEN 4
    ELSE IF tier = "good" THEN 3
    ELSE IF tier = "needs_improvement" THEN 2
    ELSE 1

\* C11: every call returns exactly one tier message: excellent for a score
\* >= 90, good for >= 75, needs improvement for >= 60, needs attention
\* otherwise; of two calls, the one with the strictly higher score never has
\* the lower tier.
C11_TierByThresholdMonotonic ==
    /\ IsInsights =>
          LET score == result.metrics.productivity_score
              tiers == MessagesOf("tier")
          IN /\ Len(tiers) = 1
             /\ tiers[1].detail \in
                   {"excellent", "good", "needs_improvement", "needs_attention"}
             /\ (tiers[1].detail = "excellent") <=> RatLE(<<90, 1>>, score)
             /\ (tiers[1].detail = "good") <=>
                   (RatLE(<<75, 1>>, score) /\ RatLT(score, <<90, 1>>))
             /\ (tiers[1].detail = "needs_improvement") <=>
                   (RatLE(<<60, 1>>, score) /\ RatLT(score, <<75, 1>>))
             /\ (tiers[1].detail = "needs_attention") <=> RatLT(score, <<60, 1>>)
    /\ advice.calls = 2 =>
          /\ RatLT(advice.prev_score, advice.score) =>
                TierRank(advice.prev_tier) <= TierRank(advice.tier)
          /\ RatLT(advice.score, advice.prev_score) =>
                TierRank(advice.tier) <= TierRank(advice.prev_tier)

\* C11 witness: a call scoring exactly 90 (excellent) after a call with a
\* lower score in the tier good
C11_Witness ==
    /\ IsInsights /\ advice.calls = 2
    /\ advice.score = <<90, 1>> /\ advice.tier = "excellent"
    /\ RatLT(advice.prev_score, advice.score) /\ advice.prev_tier = "good"

FirstRow(a) ==
    CHOOSE i \in 1..Len(result.df) :
        /\ a \in DOMAIN result.df[i].activity_data
        /\ \A j \in 1..(i - 1) : a \notin DOMAIN result.df[j].activity_data

PlaceInRow(a, i) ==
    CHOOSE n \in 1..Len(result.df[i].activity_keys) : result.df[i].activity_keys[n] = a

MetBefore(a, b) ==
    \/ FirstRow(a) < FirstRow(b)
    \/ FirstRow(a) = FirstRow(b) /\ PlaceInRow(a, FirstRow(a)) < PlaceInRow(b, FirstRow(b))

\* C13: a top-activity message is returned exactly when the activity
\* breakdown is non-empty; it names an activity whose accumulated hours are
\* maximal, and among several maximal ones the one met first while the
\* fetched entries were accumulated.
C13_TopActivityFirstMaximal ==
    IsInsights =>
        LET breakdown == result.metrics.activity_breakdown
            acts == MessagesOf("activity")
            maximal == { a \in DOMAIN breakdown :
                           \A b \in DOMAIN breakdown : breakdown[b] <= breakdown[a] }
        IN /\ Len(acts) <= 1
           /\ (Len(acts) = 1) <=> (DOMAIN breakdown # {})
           /\ Len(acts) = 1 =>
                 /\ acts[1].detail \in maximal
                 /\ \A b \in maximal \ {acts[1].detail} : MetBefore(acts[1].detail, b)

\* C13 witness: two activities tie, the named one met in the first fetched
\* row and the other only in a later row with a later date
C13_Witness ==
    /\ IsInsights /\ Len(MessagesOf("activity")) = 1 /\ Len(result.df) = 2
    /\ result.metrics.activity_breakdown = [monitoring |-> 40, patching |-> 40]
    /\ MessagesOf("activity")[1].detail = "patching"
    /\ DOMAIN result.df[1].activity_data = {"patching"}
    /\ DOMAIN result.df[2].activity_data = {"monitoring"}
    /\ StrLE(result.df[1].date, result.df[2].date)

\* the hours of activity a summed over a set of stored entries
RECURSIVE ActivityHoursOf(_, _)
ActivityHoursOf(a, ids) ==
    IF ids = {} THEN 0
    ELSE LET i == CHOOSE x \in ids : TRUE
         IN (IF a \in DOMAIN store[i].activity_data
             THEN store[i].activity_data[a] ELSE 0)
            + ActivityHoursOf(a, ids \ {i})

IsCalendar == result.op = "calendar"

\* the calendar was opened and the query returned entries
HasCalendar == IsCalendar /\ result.out.rows > 0

\* ordinals of the Monday on or before date d and of the Sunday on or after
\* it (ordinal 1, 1 January of year 1, is a Monday)
MondayOnOrBefore(d) ==
    CHOOSE o \in (ToOrdinal(d) - 6)..ToOrdinal(d) : o % 7 = 1

SundayOnOrAfter(d) ==
    CHOOSE o \in ToOrdinal(d)..(ToOrdinal(d) + 6) : o % 7 = 0

\* the stored total_hours of the result's user at the day of ordinal o (0 if
\* the user has no entry of that day)
HoursLoggedOn(o) ==
    TotalHoursOf({id \in DOMAIN store :
                    /\ store[id].user_id = result.user_id
                    /\ ToOrdinal(ParseIso(store[id].date)) = o})

\* the value of the n-th cell of a matrix of 7 columns, in row-major order
CellAt(matrix, n) == matrix[((n - 1) \div 7) + 1][((n - 1) % 7) + 1]

RECURSIVE SumCells(_, _)
SumCells(matrix, cells) ==
    IF cells = {} THEN 0
    ELSE LET n == CHOOSE x \in cells : TRUE
         IN CellAt(matrix, n) + SumCells(matrix, cells \ {n})

\* the cells of the matrix that are days of the month, given the Monday the
\* matrix has to begin on
InMonthCells(matrix) ==
    LET first == MondayOnOrBefore(result.out.start_date)
    IN { n \in 1..(7 * Len(matrix)) :
           /\ first + n - 1 >= ToOrdinal(result.out.start_date)
           /\ first + n - 1 <= ToOrdinal(result.out.end_date) }

\* the matrix of a calendar result has a cell count that is a positive
\* multiple of 7 and in-month cells that sum to the total_hours stored for
\* the month
MatrixSumsToMonth ==
    LET o == result.out
    IN /\ o.reshaped
       /\ Len(o.calendar_matrix) >= 1
       /\ \A w \in 1..Len(o.calendar_matrix) : Len(o.calendar_matrix[w]) = 7
       /\ SumCells(o.calendar_matrix, InMonthCells(o.calendar_matrix)) =
            TotalHoursOf(EntriesBetween(result.user_id, o.start_date, o.end_date))

C16_PaddedWeeksAndLabels ==
    HasCalendar =>
        LET o == result.out
            first == MondayOnOrBefore(o.start_date)
            last == SundayOnOrAfter(o.end_date)
            cells == 1..(last - first + 1)
            Inside(n) == /\ first + n - 1 >= ToOrdinal(o.start_date)
                         /\ first + n - 1 <= ToOrdinal(o.end_date)
            day(n) == first + n - ToOrdinal(o.start_date)
        IN /\ ToOrdinal(o.first_monday) = first
           /\ ToOrdinal(o.last_sunday) = last
           /\ o.reshaped /\ 7 * Len(o.calendar_matrix) = last - first + 1
           /\ o.labelled /\ Len(o.date_labels) = Len(o.calendar_matrix)
           /\ \A n \in cells :
                 IF Inside(n)
                 THEN /\ CellAt(o.calendar_matrix, n) = HoursLoggedOn(first + n - 1)
                      /\ CellAt(o.date_labels, n) =
                           <<48 + (day(n) \div 10), 48 + (day(n) % 10)>>
                 ELSE /\ CellAt(o.calendar_matrix, n) = 0
                      /\ CellAt(o.date_labels, n) = <<>>

\* the monthStart and monthEnd the claim gives for a selected date
IsLastDayOfMonth(d) ==
    \/ d[2] \in {1, 3, 5, 7, 8, 10, 12} /\ d[3] = 31
    \/ d[2] \in {4, 6, 9, 11} /\ d[3] = 30
    \/ d[2] = 2 /\ d[3] = 29 /\ d[1] \in {2020, 2024, 2028}
    \/ d[2] = 2 /\ d[3] = 28 /\ d[1] \notin {2020, 2024, 2028}

\* C17: monthStart is day 1 of the selected date's month and monthEnd is the
\* last calendar day of that same month and year, for December (31 December
\* of the same year) and for months of 28, 29, 30 and 31 days.
C17_MonthStartAndEnd ==
    IsCalendar =>
        LET o == result.out
            sel == result.selected_month
        IN /\ o.start_date = <<sel[1], sel[2], 1>>
           /\ o.end_date[1] = sel[1] /\ o.end_date[2] = sel[2]
           /\ IsLastDayOfMonth(o.end_date)

\* C17 witness: a date of December selected
C17_Witness ==
    /\ IsCalendar /\ result.selected_month = <<2024, 12, 28>>
    /\ result.out.end_date = <<2024, 12, 31>>

\* C18: the best day is the date of an entry with the largest total_hours of
\* the month, and of several such entries the one with the first date,
\* whatever order the store returned the entries in.
C18_BestDayFirstMaximal ==
    HasCalendar =>
        LET o == result.out
            inside == EntriesBetween(result.user_id, o.start_date, o.end_date)
            maximal == { i \in inside :
                           \A j \in inside : store[j].total_hours <= store[i].total_hours }
        IN \E i \in maximal :
              /\ o.best_day_str = store[i].date
              /\ \A j \in maximal :
                    ToOrdinal(ParseIso(store[i].date)) <= ToOrdinal(ParseIso(store[j].date))

(***************************************************************************)
(* Properties of the export                                                *)
(***************************************************************************)
IsExport == result.op = "export"

\* the stored entries of a user
StoredOf(user_id) == {id \in DOMAIN store : store[id].user_id = user_id}

\* C19: when the user has no stored entries, export_data returns the 'no
\* data' payload, the same for every format value, and never a file.
C19_NoDataForEveryFormat ==
    (IsExport /\ StoredOf(result.user_id) = {}) =>
        /\ result.out.kind = "message"
        /\ result.out.text = "No data available for export"

\* C19 witness: an Excel export of a user without entries while another
\* user has entries
C19_Witness ==
    /\ IsExport /\ result.format_type = "excel"
    /\ StoredOf(result.user_id) = {} /\ DOMAIN store # {}
    /\ result.out.kind = "message"

\* the date cell of a row: the date string of the entry, or, in a
\* spreadsheet, the timestamp of that day
IsDateCell(cell, date_str) ==
    cell = date_str \/ cell = <<ParseIso(date_str)[1], ParseIso(date_str)[2],
                                ParseIso(date_str)[3], 0, 0, 0>>

\* whether the rows of the export are the flattened entries of the user,
\* with the notes cell of a row satisfying Notes(cell, the entry's notes)
RowsFlatten(Notes(_, _)) ==
    LET mine == StoredOf(result.user_id)
        rows == result.out.rows
        activities == UNION { DOMAIN store[id].activity_data : id \in mine }
        RowOf(id) == { i \in 1..Len(rows) :
                         IsDateCell(rows[i]["date"], store[id].date) }
    IN /\ result.out.kind \in {"csv", "xlsx", "json"}
       /\ Len(rows) = Cardinality(mine)
       /\ \A id \in mine :
             /\ Cardinality(RowOf(id)) = 1
             /\ \A i \in RowOf(id) :
                   /\ DOMAIN rows[i] =
                         {"date", "total_hours", "notes", "work_location",
                          "mood_score", "energy_level"}
                         \cup { "activity_" \o a : a \in activities }
                   /\ "id" \notin DOMAIN rows[i]
                   /\ "user_id" \notin DOMAIN rows[i]
                   /\ rows[i]["total_hours"] = store[id].total_hours
                   /\ Notes(rows[i]["notes"], store[id].notes)
                   /\ rows[i]["work_location"] = store[id].work_location
                   /\ rows[i]["mood_score"] = store[id].mood_score
                   /\ rows[i]["energy_level"] = store[id].energy_level
                   /\ \A a \in activities :
                         rows[i]["activity_" \o a] =
                           (IF a \in DOMAIN store[id].activity_data
                            THEN store[id].activity_data[a] ELSE 0)

\* an export of one of the three formats for a user whose entries were read
IsExportOfEntries ==
    /\ IsExport /\ result.store_ok /\ StoredOf(result.user_id) # {}
    /\ result.format_type \in {"csv", "excel", "json"}

\* the notes of the entry, or, in a spreadsheet, the timestamp they read as,
\* or the blank cell of empty notes
KeepsNotes(cell, notes) ==
    \/ cell = notes
    \/ cell # <<0>> /\ Len(cell) = 6 /\ Len(notes) = 10
    \/ cell = <<0>> /\ notes = <<>>

\* C20: for a user with entries, the export has one row per stored entry;
\* every row has one activity column for every activity id that occurs in
\* at least one of the entries, holding the entry's hours for the activity
\* or 0 when the entry lacks it; no row has the id or the user_id field,
\* and every row keeps the entry's date, total_hours, notes, work_location,
\* mood_score and energy_level.
C20_RowsFlattenEntries == IsExportOfEntries => RowsFlatten(KeepsNotes)

(***************************************************************************)
(* Properties of the work profile                                          *)
(***************************************************************************)
\* C21: the work profile is total over the location types: 'offshore' gives
\* 8.8 expected daily and 44.0 expected weekly hours, every other value, an
\* unknown or a missing one included, gives 8.0 and 40.0; the metrics carry
\* the daily value of their location type.
C21_WorkProfileTotal ==
    /\ result.op = "profile" =>
          IF "location_type" \in DOMAIN result.user
             /\ result.user.location_type = "offshore"
          THEN result.daily = 88 /\ result.weekly = 440
          ELSE result.daily = 80 /\ result.weekly = 400
    /\ result.op = "metrics" =>
          result.out.metrics.expected_daily_hours =
            (IF result.location_type = "offshore" THEN 88 ELSE 80)

\* C21 witness: the profile of a record without a location type, and of one
\* whose location type differs from 'offshore' in case only
C21_Witness ==
    /\ result.op = "profile"
    /\ result.daily = 80 /\ result.weekly = 400
    /\ "location_type" \in DOMAIN result.user => result.user.location_type = "Offshore"

(***************************************************************************)
(* Properties of the store's failures and of the frame                     *)
(***************************************************************************)
\* the fetched row is the stored entry of that id, an entry of user_id
IsStoredRow(row, st, user_id) ==
    /\ row.id \in DOMAIN st
    /\ st[row.id].user_id = user_id
    /\ row.date = st[row.id].date
    /\ row.total_hours = st[row.id].total_hours
    /\ row.activity_data = st[row.id].activity_data

\* the exported row is a stored entry of user_id
IsStoredExportRow(row, st, user_id) ==
    \E id \in DOMAIN st :
       /\ st[id].user_id = user_id
       /\ IsDateCell(row["date"], st[id].date)
       /\ row["total_hours"] = st[id].total_hours

\* C22: a failure of the store does not leave the storage layer: a failed
\* save returns False and leaves the stored entries as they were; a failed
\* read is an empty list, on which the metrics are those of an empty window,
\* the insights are still produced and the export is the 'no data' payload;
\* and every row of a result is a stored entry of the user.
C22_StoreFailureContained ==
    [][ /\ (result'.op = "save" /\ ~result'.value) => store' = store
        /\ (result'.op = "metrics" /\ ~result'.store_ok) =>
              /\ result'.out.df = <<>>
              /\ result'.out.metrics.total_hours = 0
              /\ result'.out.metrics.working_days = 0
              /\ result'.out.metrics.activity_breakdown = <<>>
        /\ (result'.op = "insights" /\ ~result'.store_ok) =>
              /\ result'.df = <<>>
              /\ Len(result'.out) >= 1
        /\ (result'.op = "export" /\ ~result'.store_ok) =>
              /\ result'.out.kind = "message"
              /\ result'.out.text = "No data available for export"
        /\ result'.op = "metrics" =>
              \A i \in 1..Len(result'.out.df) :
                 IsStoredRow(result'.out.df[i], store', result'.user_id)
        /\ result'.op = "insights" =>
              \A i \in 1..Len(result'.df) :
                 IsStoredRow(result'.df[i], store', result'.user_id)
        /\ (result'.op = "export" /\ result'.out.kind # "message") =>
              \A i \in 1..Len(result'.out.rows) :
                 IsStoredExportRow(result'.out.rows[i], store', result'.user_id)
      ]_vars

\* C22 witness: the store fails the export query of a user who has entries
C22_Witness ==
    /\ IsExport /\ ~result.store_ok
    /\ StoredOf(result.user_id) # {}
    /\ result.out.kind = "message"

(***************************************************************************)
(* Properties of the divisions                                             *)
(***************************************************************************)
\* C23: calculate_productivity_metrics divides by nothing that is zero,
\* whatever the entries, the period, the location type and today (a window
\* that starts and ends on the same day and a window of entries without
\* hours included); when every entry of the window has total_hours 0,
\* working_days is 0 and avg_daily_hours is 0.
C23_NoDivisionByZero ==
    IsMetrics =>
       /\ \A i \in 1..Len(result.out.divisors) : result.out.divisors[i] # 0
       /\ result.out.metrics.avg_daily_hours[2] # 0
       /\ result.out.metrics.productivity_score[2] # 0
       /\ (\A i \in 1..Len(result.out.df) : result.out.df[i].total_hours = 0) =>
             /\ result.out.metrics.working_days = 0
             /\ result.out.metrics.avg_daily_hours = <<0, 1>>

\* C23 witness: on the first of the month, the month's metrics over one
\* entry without hours: the window has no day and no working day
C23_Witness ==
    /\ IsMetrics /\ result.period = "month"
    /\ result.out.start_date = result.out.end_date
    /\ result.out.rows = 1
    /\ result.out.df[1].total_hours = 0
    /\ result.out.divisors[1] = 1 /\ result.out.divisors[2] = 1
    /\ result.out.metrics.avg_daily_hours = <<0, 1>>

\* the entry of the store st that a save for (user_id, date_str) is about
IsEntryOf(st, id, user_id, date_str) ==
    st[id].user_id = user_id /\ st[id].date = date_str

\* C24: the metrics, the insights, the export and the calendar view leave
\* the stored entries as they are; the store changes only in a save, and a
\* save changes or adds no entry but the one of its user and date.
C24_OnlySaveWritesItsEntry ==
    [][ /\ result'.op \in {"metrics", "insights", "export", "calendar"} =>
              store' = store
        /\ store' # store => (result'.op = "save" /\ result'.value)
        /\ result'.op = "save" =>
              /\ \A id \in DOMAIN store :
                    ~IsEntryOf(store, id, result'.user_id, result'.date) =>
                       (id \in DOMAIN store' /\ store'[id] = store[id])
              /\ \A id \in DOMAIN store' \ DOMAIN store :
                    IsEntryOf(store', id, result'.user_id, result'.date)
      ]_vars

\* C24 witness: a save of the second user while the first has two entries
C24_Witness ==
    /\ result.op = "save" /\ result.value /\ result.user_id = <<117, 50>>
    /\ Cardinality(StoredOf(<<117, 49>>)) = 2
    /\ Cardinality(StoredOf(<<117, 50>>)) = 1

(***************************************************************************)
(* Properties of the accounts and of the session                           *)
(***************************************************************************)
IsRegister == result.op = "register"

\* C25: an unknown location type is answered with the onshore profile in
\* every operation that takes one, register_user included, which then seeds
\* the goals of the user from the onshore profile of the team; only an
\* unknown team is a lookup failure.
C25_UnknownLocationDefaultsToOnshore ==
    /\ (IsRegister /\ result.team \in DOMAIN team_configs) =>
          "raised" \notin DOMAIN result.out
    /\ (IsRegister /\ result.out = [value |-> TRUE]
        /\ result.location_type \notin {"onshore", "offshore"}) =>
          \E uid \in DOMAIN users :
             /\ users[uid].email = result.email
             /\ users[uid].goals.daily_hours = 80
             /\ users[uid].goals.weekly_hours = 400
    /\ (result.op = "main" /\ result.location_type # "offshore") =>
          result.out.metrics.expected_daily_hours = 80

(***************************************************************************)
(* Properties of the trend charts                                          *)
(***************************************************************************)
\* C26: the entries fetched without a date bound reach the caller in
\* non-increasing date order whatever order the store streams them in, so
\* the first 30 rows, which the trend draws, are the 30 entries with the
\* most recent dates: no entry left out is newer than an entry kept.
C26_TrendKeepsMostRecent ==
    (result.op = "trend" /\ result.store_ok) =>
       LET mine == StoredOf(result.user_id)
           fetched == result.out.fetched
           kept == {result.out.df_recent[i].id :
                      i \in 1..Len(result.out.df_recent)}
       IN /\ Len(fetched) = Cardinality(mine)
          /\ \A i \in 1..(Len(fetched) - 1) : StrLE(fetched[i + 1], fetched[i])
          /\ kept \subseteq mine
          /\ Cardinality(kept) = (IF Cardinality(mine) < 30
                                  THEN Cardinality(mine) ELSE 30)
          /\ \A k \in kept, o \in mine \ kept :
                StrLE(store[o].date, store[k].date) /\ store[o].date # store[k].date

\* C26 witness: 32 entries streamed oldest first; the trend draws 30 rows,
\* from 2 February to 2 March
C26_Witness ==
    /\ result.op = "trend" /\ result.status = "unordered"
    /\ Len(result.out.fetched) = 32
    /\ Len(result.out.df_recent) = 30
    /\ result.out.df_recent[1].date = <<2024, 2, 2>>
    /\ result.out.df_recent[30].date = <<2024, 3, 2>>

\* C27: a sign-in returns a user record only when the password given is the
\* one registered for the e-mail address; with a wrong password for a
\* registered address it returns None and the session stays unauthenticated.
C27_PasswordIsVerified ==
    result.op = "sign_in" =>
       /\ result.out # None =>
             /\ result.email \in DOMAIN accounts
             /\ accounts[result.email].password = result.password
       /\ (/\ result.email \in DOMAIN accounts
           /\ accounts[result.email].password # result.password) =>
             (result.out = None /\ ~session.authenticated)

\* C30: the session is authenticated exactly when it holds a user record,
\* in every state: a sign-in that finds the user sets both, a sign-in that
\* does not changes neither, the sign-out clears both, and the main interface
\* with its metrics is reached only when both hold, for the user held.
C30_AuthenticatedIffUserHeld ==
    /\ (session.authenticated <=> session.user # [none |-> TRUE])
    /\ [][ /\ session'.authenticated <=> session'.user # [none |-> TRUE]
           /\ (result'.op = "sign_in" /\ result'.out # [none |-> TRUE]) =>
                 (session'.authenticated /\ session'.user = result'.out)
           /\ (result'.op = "sign_in" /\ result'.out = [none |-> TRUE]) =>
                 session' = session
           /\ result'.op = "sign_out" =>
                 (~session'.authenticated /\ session'.user = [none |-> TRUE])
           /\ result'.op = "main" =>
                 /\ session.authenticated /\ session.user # [none |-> TRUE]
                 /\ result'.user_id = session.user.id
                 /\ session' = session
          ]_vars

\* C30 witness: a session signed out after a sign-in
C30_Witness ==
    /\ result.op = "sign_out"
    /\ ~session.authenticated /\ session.user = [none |-> TRUE]
    /\ \E uid \in DOMAIN users : users[uid].last_login = "login"

(***************************************************************************)
(* Properties of the insights of an empty month                            *)
(***************************************************************************)
\* the stored entries of the user whose date is in the month of today
StoredThisMonth(user_id) ==
    { id \in StoredOf(user_id) :
        /\ ParseIso(store[id].date)[1] = today[1]
        /\ ParseIso(store[id].date)[2] = today[2] }

\* C28: for a user without entries in the current month, generate_insights
\* returns exactly four messages, in this order: the 'needs attention' tier
\* message, the 'increase hours' message, the low mood message and the low
\* energy message; there is no top activity message.
C28_EmptyMonthFourMessages ==
    (IsInsights /\ StoredThisMonth(result.user_id) = {}) =>
       result.out = << [kind |-> "tier", detail |-> "needs_attention"],
                       [kind |-> "hours", detail |-> "increase"],
                       [kind |-> "mood", detail |-> "low"],
                       [kind |-> "energy", detail |-> "low"] >>

\* C28 witness: the insights of an offshore user whose only entry is of the
\* month before
C28_Witness ==
    /\ IsInsights /\ result.store_ok /\ result.location_type = "offshore"
    /\ StoredOf(result.user_id) # {}
    /\ StoredThisMonth(result.user_id) = {}
    /\ Len(result.out) = 4

(***************************************************************************)
(* Properties of the document ids                                          *)
(***************************************************************************)
IdUserDates == { <<u, IsoFormat(d)>> : u \in IdUsers, d \in IdDays }

\* C29: with ISO dates of 10 characters the document id user_id + '_' + date
\* belongs to one (user, date) pair only, also when a user id holds '_':
\* distinct pairs have distinct ids, every stored document sits under the id
\* of its own user and date, and no save changes the user or the date of a
\* stored document.
C29_DocIdInjective ==
    /\ \A p, q \in IdUserDates :
          DocId(p[1], p[2]) = DocId(q[1], q[2]) => p = q
    /\ \A id \in DOMAIN store :
          /\ Len(store[id].date) = 10
          /\ id = DocId(store[id].user_id, store[id].date)
    /\ [][\A id \in DOMAIN store :
             /\ id \in DOMAIN store'
             /\ store'[id].user_id = store[id].user_id
             /\ store'[id].date = store[id].date]_vars

\* C29 witness: every user has an entry for both days, the last one saved by
\* the user whose id is the document id of an entry of u1
C29_Witness ==
    /\ result.op = "save" /\ result.value
    /\ result.user_id = DocId(U1, IsoFormat(<<2024, 3, 1>>))
    /\ Cardinality(DOMAIN store) = Cardinality(IdUserDates)
    /\ Cardinality(IdUserDates) = 6
    /\ DocId(U1, IsoFormat(<<2024, 3, 1>>)) \in DOMAIN store
    /\ DocId(result.user_id, result.date) \in DOMAIN store

====
